---- MODULE Spec2Model ----
(***************************************************************************)
(* Story/Image Session (generate) and Generation Supervisor               *)
(* (retry_story_generation) of generators/story_generator.py, the Retrier  *)
(* (retry_api_call) of utils/api_utils.py and the Prompt Acquirer          *)
(* (generate_prompt) of generators/prompt_generator.py.                    *)
(*                                                                         *)
(* Text is a sequence of one-character strings.  A directory name is a    *)
(* natural number, an image file path a record [dir, n, ext].             *)
(***************************************************************************)
EXTENDS Integers, Sequences, FiniteSets, TLC

VARIABLES
    args,          \* the arguments use_prompt_generator and prompt_input
    pc,            \* where retry_story_generation is
    success,       \* its success flag
    retry_count,   \* its attempt counter
    results,       \* its results dictionary
    returned,      \* what it returned, None before
    slept,         \* the seconds it spent in time.sleep
    last_nonnull,  \* history: the last result of generate that was not None
    locals,        \* the frame of the call of generate of the attempt under way
    tmp_dirs,      \* the temporary directories that exist
    calls,         \* history: the number of calls of generate
    retrier,       \* the frame of the call of retry_api_call under way
    acquirer,      \* the frame of the call of generate_prompt under way
    rng,           \* the state of the generator of the random module
    fb_history,    \* history: the last two calls of generate_fallback_prompt
    runner,        \* the frame of main of continuous_runner.py and its files
    main           \* the frame of main of github_main.py

vars == <<runner, main, args, pc, success, retry_count, results, returned, slept,
          last_nonnull, locals, tmp_dirs, calls, retrier, acquirer, rng,
          fb_history>>

(***************************************************************************)
(* Bounds of the explored inputs                                           *)
(***************************************************************************)
MaxPar == 7
MaxImages == 7
MaxBadImages == 4
MaxSessionAttempts == 2
MaxLog == 3
MaxMarkerParts == 2
MaxPromptChunks == 3
MaxResponsePieces == 3
MaxDraw == 2
MaxChunkSize == 4
MaxCount == 2
MaxDuration == 3
MaxGenerations == 4

(***************************************************************************)
(* Program constants                                                       *)
(***************************************************************************)
max_retries == 1000
retry_delay == 7
api_retry_delay == 10
max_consecutive_failures == 1000
max_image_retries == 3
MinSegments == 6
MinImages == 6
generation_delay == 30

None == [none |-> TRUE]

(***************************************************************************)
(* Text: characters, whitespace, the regular expression \n\s*\n            *)
(***************************************************************************)
NL == "\n"
SP == " "

IsSpace(c) == c \in {NL, SP}

\* First index >= i of s that is not whitespace, Len(s)+1 if there is none.
RECURSIVE SkipSpace(_, _)
SkipSpace(s, i) ==
    IF i > Len(s) THEN i
    ELSE IF IsSpace(s[i]) THEN SkipSpace(s, i + 1) ELSE i

\* Last index in lo..hi of s that holds a newline, 0 if there is none.
RECURSIVE LastNewline(_, _, _)
LastNewline(s, lo, hi) ==
    IF hi < lo THEN 0
    ELSE IF s[hi] = NL THEN hi ELSE LastNewline(s, lo, hi - 1)

\* re.search(r'\n\s*\n', s) from index i: the leftmost match, \s* greedy.
\* <<p, q>> are the first and last index of the match, <<0, 0>> without one.
RECURSIVE SearchBoundary(_, _)
SearchBoundary(s, i) ==
    IF i > Len(s) THEN <<0, 0>>
    ELSE IF s[i] = NL
         THEN LET e == SkipSpace(s, i + 1) - 1
                  q == LastNewline(s, i + 1, e)
              IN IF q > 0 THEN <<i, q>> ELSE SearchBoundary(s, i + 1)
         ELSE SearchBoundary(s, i + 1)

HasBoundary(s) == SearchBoundary(s, 1)[1] > 0

\* re.split(r'\n\s*\n', s, 1)
SplitOnce(s) ==
    LET m == SearchBoundary(s, 1)
    IN IF m[1] = 0 THEN <<s>>
       ELSE <<SubSeq(s, 1, m[1] - 1), SubSeq(s, m[2] + 1, Len(s))>>

\* re.split(r'\n\s*\n', s)
RECURSIVE SplitAll(_)
SplitAll(s) ==
    LET parts == SplitOnce(s)
    IN IF Len(parts) = 1 THEN parts
       ELSE <<parts[1]>> \o SplitAll(parts[2])

\* str.strip()
RECURSIVE RStrip(_)
RStrip(s) ==
    IF s = <<>> THEN s
    ELSE IF IsSpace(s[Len(s)]) THEN RStrip(SubSeq(s, 1, Len(s) - 1)) ELSE s

Strip(s) == LET i == SkipSpace(s, 1) IN RStrip(SubSeq(s, i, Len(s)))

\* str.split('\n')
RECURSIVE SplitLines(_)
SplitLines(s) ==
    LET i == CHOOSE k \in 1..(Len(s) + 1) :
                 /\ (k <= Len(s) => s[k] = NL)
                 /\ \A j \in 1..(k - 1) : s[j] # NL
    IN IF i > Len(s) THEN <<s>>
       ELSE <<SubSeq(s, 1, i - 1)>> \o SplitLines(SubSeq(s, i + 1, Len(s)))

\* '\n'.join(lines)
RECURSIVE JoinLines(_)
JoinLines(lines) ==
    IF lines = <<>> THEN <<>>
    ELSE IF Len(lines) = 1 THEN lines[1]
    ELSE lines[1] \o <<NL>> \o JoinLines(Tail(lines))

\* [s for s in segments if s.strip()]
RECURSIVE NonBlank(_)
NonBlank(segs) ==
    IF segs = <<>> THEN <<>>
    ELSE IF Strip(Head(segs)) # <<>> THEN <<Head(segs)>> \o NonBlank(Tail(segs))
    ELSE NonBlank(Tail(segs))

(***************************************************************************)
(* Values                                                                  *)
(***************************************************************************)
\* Python's None where a string is expected, and the key of a dict that is absent.
NoneStr == <<"None">>
NoDir == 0

TruthyStr(t) == t # NoneStr /\ t # <<>>

JPEG == <<"image", "jpeg">>
PNG == <<"image", "png">>
WEBP == <<"image", "webp">>
PLAIN == <<"text", "plain">>

\* A part of a response.  data stands for the payload of an inline image:
\* "valid" decodes and opens, "corrupt" decodes but does not open as an image,
\* "undecodable" is not base64, "unreadable" raises as soon as it is handled.
ImagePart(n, data, mime) == [inline_data |-> TRUE, data |-> data, mime_type |-> mime, n |-> n]
TextPart == [inline_data |-> FALSE, data |-> "text", mime_type |-> PLAIN, n |-> 0]

\* tempfile.mkdtemp(): a directory that did not exist.
MkDtemp(existing) ==
    CHOOSE d \in 1..(Cardinality(existing) + 1) :
        d \notin existing /\ \A e \in 1..(d - 1) : e \in existing

\* The directory made by retry_story_generation itself.
SupervisorDir == 1

CleverFoxPrompt == <<"Generate a story about", "a clever fox", "going on an adventure in", "an enchanted forest">>

(***************************************************************************)
(* generate(): the frame of one call and its steps                         *)
(***************************************************************************)
\* The frame of a call of generate: its arguments, what the model and the file
\* system will answer (env, fs), and its local variables.
NewFrame(use_prompt_generator, prompt_input, env, fs) ==
    [pc |-> "setup",
     use_prompt_generator |-> use_prompt_generator,
     prompt_input |-> prompt_input,
     env |-> env,
     fs |-> fs,
     prompt_text |-> NoneStr,
     contents |-> NoneStr,
     submitted |-> <<>>,
     stream |-> <<>>,
     story_text |-> <<>>,
     story_segments |-> <<>>,
     current_segment |-> <<>>,
     image_data |-> <<>>,
     image_load_failures |-> 0,
     title |-> <<>>,
     segments_cleaned |-> <<>>,
     temp_dir |-> NoDir,
     image_files |-> <<>>,
     idx |-> 0,
     fallback_calls |-> 0,
     chunks_seen |-> 0,
     ret |-> None]

ReturnNone(L) == [L EXCEPT !.pc = "returned", !.ret = None]

\* genai.configure and genai.GenerativeModel, each in its own try.
Setup(L) ==
    IF L.env.setup # "ok" THEN ReturnNone(L)
    ELSE [L EXCEPT !.pc = "prompt"]

\* Faulty variant of ChoosePrompt: the guidance is wrapped in the story
\* template before it is used.
ChoosePromptFormatsGuidance(L, prompt_result) ==
    LET prompt_text ==
            IF L.use_prompt_generator
            THEN IF TruthyStr(prompt_result) THEN prompt_result ELSE CleverFoxPrompt
            ELSE <<"Generate a story about">> \o L.prompt_input
    IN IF L.env.escapes THEN [L EXCEPT !.pc = "raised"]
       ELSE [L EXCEPT !.pc = "stream_call",
                      !.prompt_text = prompt_text,
                      !.contents = prompt_text,
                      !.image_load_failures = 0]

\* Lines 185-215 once retry_api_call(generate_prompt, ...) has returned
\* prompt_result (not evaluated when use_prompt_generator is false): the
\* prompt, the contents built from it, and the image-failure counter set to 0.
\* These lines are in no try block: what is raised here (env.escapes) leaves
\* generate.
ChoosePrompt(L, prompt_result) ==
    LET prompt_text ==
            IF L.use_prompt_generator
            THEN IF TruthyStr(prompt_result) THEN prompt_result ELSE CleverFoxPrompt
            ELSE L.prompt_input
    IN IF L.env.escapes THEN [L EXCEPT !.pc = "raised"]
       ELSE [L EXCEPT !.pc = "stream_call",
                      !.prompt_text = prompt_text,
                      !.contents = prompt_text,
                      !.image_load_failures = 0]

\* The same lines, the answer of retry_api_call being taken from env.
AcquirePrompt(L) == ChoosePrompt(L, L.env.prompt_result)

\* model.generate_content(stream=True) and the buffers of the streaming path.
StreamCall(L) ==
    IF L.env.stream_call = "raise"
    THEN [L EXCEPT !.pc = "fallback",
                   !.submitted = Append(L.submitted, L.contents)]
    ELSE [L EXCEPT !.pc = "streaming",
                   !.submitted = Append(L.submitted, L.contents),
                   !.stream = L.env.stream,
                   !.story_text = <<>>,
                   !.story_segments = <<>>,
                   !.current_segment = <<>>,
                   !.image_data = <<>>]

\* The text of a chunk: appended, and split at the first blank-line boundary.
ProcessText(L, text) ==
    IF text = <<>> THEN L
    ELSE LET cur == L.current_segment \o text
             parts == SplitOnce(cur)
         IN IF HasBoundary(cur)
            THEN IF Len(parts) > 1
                 THEN [L EXCEPT !.story_text = L.story_text \o text,
                                !.story_segments = Append(L.story_segments, parts[1]),
                                !.current_segment = parts[2]]
                 ELSE [L EXCEPT !.story_text = L.story_text \o text,
                                !.story_segments = Append(L.story_segments, cur),
                                !.current_segment = <<>>]
            ELSE [L EXCEPT !.story_text = L.story_text \o text,
                           !.current_segment = cur]

\* Variant: the first part that raises ends the handling of the parts.
RECURSIVE ProcessPartsStopsOnFailure(_, _)
ProcessPartsStopsOnFailure(L, parts) ==
    IF parts = <<>> THEN L
    ELSE LET part == Head(parts)
         IN IF ~part.inline_data
            THEN ProcessPartsStopsOnFailure(L, Tail(parts))
            ELSE IF part.data = "unreadable"
                 THEN [L EXCEPT !.image_load_failures = L.image_load_failures + 1]
                 ELSE ProcessPartsStopsOnFailure(
                          [L EXCEPT !.image_data =
                              Append(L.image_data,
                                     [data |-> part.data, mime_type |-> part.mime_type, n |-> part.n])],
                          Tail(parts))

\* The parts of a chunk or response: an inline image is buffered, one that
\* raises while it is handled counts as an image failure.
RECURSIVE ProcessParts(_, _)
ProcessParts(L, parts) ==
    IF parts = <<>> THEN L
    ELSE LET part == Head(parts)
             L1 == IF ~part.inline_data THEN L
                   ELSE IF part.data = "unreadable"
                        THEN [L EXCEPT !.image_load_failures = L.image_load_failures + 1]
                        ELSE [L EXCEPT !.image_data =
                                 Append(L.image_data,
                                        [data |-> part.data, mime_type |-> part.mime_type, n |-> part.n])]
         IN ProcessParts(L1, Tail(parts))

\* One iteration of "for chunk in stream".  fault says what is raised:
\* "iter"/"json_iter" (an exception, a json.JSONDecodeError) by the iterator
\* itself when it is asked for the chunk, "json"/"error" when the text of the
\* chunk is read, "json_parts"/"error_parts" when its parts are read.
ProcessChunk(L) ==
    LET chunk == Head(L.stream)
        rest == [L EXCEPT !.stream = Tail(L.stream), !.chunks_seen = L.chunks_seen + 1]
    IN CASE chunk.fault \in {"iter", "json_iter"} -> [rest EXCEPT !.pc = "fallback"]
         [] chunk.fault = "json" -> ReturnNone(rest)
         [] chunk.fault = "error" -> rest
         [] chunk.fault = "json_parts" -> ReturnNone(ProcessText(rest, chunk.text))
         [] chunk.fault = "error_parts" -> ProcessText(rest, chunk.text)
         [] OTHER -> ProcessParts(ProcessText(rest, chunk.text), chunk.parts)

\* Faulty variant of EndOfStream: a stream without image data is let through.
EndOfStreamIgnoresNoImages(L) ==
    LET L1 == IF L.current_segment # <<>>
              THEN [L EXCEPT !.story_segments = Append(L.story_segments, L.current_segment)]
              ELSE L
    IN IF L1.image_load_failures >= max_image_retries
       THEN ReturnNone(L1)
       ELSE [L1 EXCEPT !.pc = "clean"]

\* After the loop: the last segment, and the checks of the streaming path.
EndOfStream(L) ==
    LET L1 == IF L.current_segment # <<>>
              THEN [L EXCEPT !.story_segments = Append(L.story_segments, L.current_segment)]
              ELSE L
        L2 == IF L1.image_data = <<>>
              THEN [L1 EXCEPT !.image_load_failures = max_image_retries]
              ELSE L1
    IN IF L2.image_load_failures >= max_image_retries
       THEN ReturnNone(L2)
       ELSE [L2 EXCEPT !.pc = "clean"]

\* Faulty variant of Fallback: the fallback starts its own failure count.
FallbackResetsCounter(L) ==
    LET response == L.env.fallback
        L0 == [L EXCEPT !.fallback_calls = L.fallback_calls + 1,
                        !.submitted = Append(L.submitted, L.contents),
                        !.image_load_failures = 0]
        L1 == [L0 EXCEPT !.story_text = IF response.has_text THEN response.text ELSE <<>>,
                         !.story_segments = IF response.has_text
                                            THEN NonBlank(SplitAll(response.text))
                                            ELSE <<>>,
                         !.image_data = <<>>]
        L2 == ProcessParts(L1, response.parts)
    IN IF response.raises THEN ReturnNone(L0)
       ELSE IF L2.story_segments = <<>> \/ L2.image_data = <<>>
            THEN ReturnNone(L2)
            ELSE [L2 EXCEPT !.pc = "clean"]

\* Faulty variant of Fallback: the response is added to what the stream left
\* in the buffers.
FallbackKeepsBuffers(L) ==
    LET response == L.env.fallback
        L0 == [L EXCEPT !.fallback_calls = L.fallback_calls + 1,
                        !.submitted = Append(L.submitted, L.contents)]
        L1 == [L0 EXCEPT !.story_text = IF response.has_text THEN L.story_text \o response.text
                                        ELSE L.story_text,
                         !.story_segments = IF response.has_text
                                            THEN L.story_segments \o NonBlank(SplitAll(response.text))
                                            ELSE L.story_segments]
        L2 == ProcessParts(L1, response.parts)
    IN IF response.raises THEN ReturnNone(L0)
       ELSE IF L2.story_segments = <<>> \/ L2.image_data = <<>>
            THEN ReturnNone(L2)
            ELSE [L2 EXCEPT !.pc = "clean"]

\* except Exception as stream_err: the non-streaming call and its response.
Fallback(L) ==
    LET response == L.env.fallback
        L0 == [L EXCEPT !.fallback_calls = L.fallback_calls + 1,
                        !.submitted = Append(L.submitted, L.contents)]
        L1 == [L0 EXCEPT !.story_text = IF response.has_text THEN response.text ELSE <<>>,
                         !.story_segments = IF response.has_text
                                            THEN NonBlank(SplitAll(response.text))
                                            ELSE <<>>,
                         !.image_data = <<>>]
        L2 == ProcessParts(L1, response.parts)
    IN IF response.raises THEN ReturnNone(L0)
       ELSE IF L2.story_segments = <<>> \/ L2.image_data = <<>>
            THEN ReturnNone(L2)
            ELSE [L2 EXCEPT !.pc = "clean"]

\* Variant: the first line of segment 0 is always taken away.
CleanSegmentAlwaysStrips(idx, segment) ==
    IF idx = 0
    THEN Strip(JoinLines(Tail(SplitLines(segment))))
    ELSE Strip(segment)

\* The cleaned segment of index idx (0-based).
CleanSegment(idx, segment) ==
    IF idx = 0
    THEN LET lines == SplitLines(segment)
         IN IF Len(lines) > 1 THEN Strip(JoinLines(Tail(lines))) ELSE Strip(segment)
    ELSE Strip(segment)

\* segments_cleaned for the segments from index idx (0-based) on.
RECURSIVE CleanFrom(_, _)
CleanFrom(idx, segments) ==
    IF segments = <<>> THEN <<>>
    ELSE <<CleanSegment(idx, Head(segments))>> \o CleanFrom(idx + 1, Tail(segments))

\* The title and the cleaned segments.
CleanSegments(L) ==
    [L EXCEPT !.pc = "mkdtemp",
              !.title = IF L.story_segments # <<>>
                        THEN Strip(SplitLines(L.story_segments[1])[1])
                        ELSE <<"Generated Story">>,
              !.segments_cleaned = CleanFrom(0, L.story_segments)]

\* Faulty variant of MakeTempDir: the images go to the caller's directory.
MakeTempDirShared(L) ==
    IF L.env.mkdtemp = "raise" THEN ReturnNone(L)
    ELSE [L EXCEPT !.pc = "saving",
                   !.temp_dir = SupervisorDir,
                   !.image_files = <<>>,
                   !.idx = 0]

\* temp_dir = tempfile.mkdtemp(); image_files = []
MakeTempDir(L) ==
    IF L.env.mkdtemp = "raise" THEN ReturnNone(L)
    ELSE [L EXCEPT !.pc = "saving",
                   !.temp_dir = MkDtemp(L.fs),
                   !.image_files = <<>>,
                   !.idx = 0]

\* The file extension of a MIME type.
Ext(mime_type) ==
    LET ext == mime_type[Len(mime_type)]
    IN IF ext = "jpeg" THEN "jpg" ELSE ext

\* One iteration of "for idx, img in enumerate(image_data)", or its end.
SaveImage(L) ==
    IF L.idx >= Len(L.image_data) THEN [L EXCEPT !.pc = "final_checks"]
    ELSE LET img == L.image_data[L.idx + 1]
             image_path == [dir |-> L.temp_dir, n |-> L.idx + 1, ext |-> Ext(img.mime_type)]
             next == [L EXCEPT !.idx = L.idx + 1]
         IN CASE img.data = "undecodable" ->
                   [next EXCEPT !.image_load_failures = L.image_load_failures + 1]
              [] img.data = "corrupt" ->
                   [next EXCEPT !.image_files = Append(L.image_files, image_path),
                                !.image_load_failures = L.image_load_failures + 1]
              [] OTHER ->
                   [next EXCEPT !.image_files = Append(L.image_files, image_path)]

\* The result dictionary.
ResultOf(L) ==
    [title |-> L.title,
     story_text |-> L.story_text,
     story_segments |-> L.segments_cleaned,
     image_files |-> L.image_files,
     temp_dir |-> L.temp_dir,
     prompt_text |-> L.prompt_text,
     image_data |-> L.image_data]

\* Faulty variant of FinalChecks: the number of segments is not checked.
FinalChecksNoSegmentCheck(L) ==
    IF L.image_load_failures >= max_image_retries THEN ReturnNone(L)
    ELSE [L EXCEPT !.pc = "returned", !.ret = ResultOf(L)]

\* The checks after the images are saved, and the return.
FinalChecks(L) ==
    IF L.image_load_failures >= max_image_retries THEN ReturnNone(L)
    ELSE IF Len(L.segments_cleaned) < MinSegments THEN ReturnNone(L)
    ELSE [L EXCEPT !.pc = "returned", !.ret = ResultOf(L)]

\* The next step of a call that has not returned.
Step(L) ==
    CASE L.pc = "setup" -> Setup(L)
      [] L.pc = "prompt" -> AcquirePrompt(L)
      [] L.pc = "stream_call" -> StreamCall(L)
      [] L.pc = "streaming" -> IF L.stream = <<>> THEN EndOfStream(L) ELSE ProcessChunk(L)
      [] L.pc = "fallback" -> Fallback(L)
      [] L.pc = "clean" -> CleanSegments(L)
      [] L.pc = "mkdtemp" -> MakeTempDir(L)
      [] L.pc = "saving" -> SaveImage(L)
      [] L.pc = "final_checks" -> FinalChecks(L)

RECURSIVE Run(_)
Run(L) == IF L.pc \in {"returned", "raised"} THEN L ELSE Run(Step(L))

\* generate(use_prompt_generator, prompt_input), run to its return.
Generate(use_prompt_generator, prompt_input, env, fs) ==
    Run(NewFrame(use_prompt_generator, prompt_input, env, fs))

(***************************************************************************)
(* The answers of the model and of the file system to one call of generate *)
(***************************************************************************)
Chunk(text, parts, fault) == [text |-> text, parts |-> parts, fault |-> fault]

Boundary == <<NL, NL>>

\* Paragraph j of a story: the first one carries the title line.
Paragraph(j) == IF j = 1 THEN <<"T", NL, "a">> ELSE <<"a">>

RECURSIVE StoryText(_)
StoryText(np) ==
    IF np = 0 THEN <<>>
    ELSE IF np = 1 THEN Paragraph(1)
    ELSE StoryText(np - 1) \o Boundary \o Paragraph(np)

Mime(j) == IF j % 3 = 1 THEN JPEG ELSE IF j % 3 = 2 THEN PNG ELSE WEBP

BadKinds == {"corrupt", "undecodable", "unreadable"}

\* n images of which those at positions b .. b+k-1 are of the kind bad.
RECURSIVE Images(_, _, _, _)
Images(n, b, k, bad) ==
    IF n = 0 THEN <<>>
    ELSE Append(Images(n - 1, b, k, bad), IF n >= b /\ n < b + k THEN bad ELSE "valid")

ImageSeqs ==
    {Images(n, 1, 0, "valid") : n \in 0..MaxImages}
    \cup {Images(n, 1, k, bad) : n \in 1..MaxImages, k \in 1..MaxBadImages, bad \in BadKinds}
    \cup {Images(MaxImages, 3, 1, bad) : bad \in BadKinds}

\* The inline parts of the images from .. to of imgs.
RECURSIVE ImageParts(_, _, _)
ImageParts(imgs, from, to) ==
    IF to < from THEN <<>>
    ELSE Append(ImageParts(imgs, from, to - 1), ImagePart(to, imgs[to], Mime(to)))

Max(a, b) == IF a >= b THEN a ELSE b

\* Chunk j of a stream of np paragraphs and the images imgs: paragraph j,
\* closed by a blank line unless it is the last one, and image j.
StreamChunk(np, imgs, j) ==
    Chunk(IF j <= np THEN Paragraph(j) \o (IF j < np THEN Boundary ELSE <<>>) ELSE <<>>,
          (IF j <= np THEN <<TextPart>> ELSE <<>>)
              \o (IF j <= Len(imgs) THEN ImageParts(imgs, j, j) ELSE <<>>),
          "none")

RECURSIVE StreamPrefix(_, _, _)
StreamPrefix(np, imgs, n) ==
    IF n = 0 THEN <<>>
    ELSE Append(StreamPrefix(np, imgs, n - 1), StreamChunk(np, imgs, n))

MkStream(np, imgs) == StreamPrefix(np, imgs, Max(np, Len(imgs)))

\* The response of the non-streaming call.
MkResponse(np, imgs) ==
    [raises |-> FALSE, has_text |-> TRUE, text |-> StoryText(np),
     parts |-> <<TextPart>> \o ImageParts(imgs, 1, Len(imgs))]

RaisingResponse == [raises |-> TRUE, has_text |-> FALSE, text |-> <<>>, parts |-> <<>>]

ImagesOnlyResponse(imgs) ==
    [raises |-> FALSE, has_text |-> FALSE, text |-> <<>>,
     parts |-> ImageParts(imgs, 1, Len(imgs))]

GeneratedPrompt == <<"Generate a story about", "a brave otter", "going on an adventure in", "a coral reef">>
\* A prompt as generate_fallback_prompt builds it.
ProceduralPrompt ==
    <<"Generate a story about", " a clever ", "fox", " ", "going on an adventure in",
      " a ", "enchanted forest", " in a highly detailed 3d cartoon animation style. ...">>
Guidance == <<"Create a unique children's story">>

Env(setup, prompt_result, escapes, stream_call, stream, fallback, mkdtemp) ==
    [setup |-> setup, prompt_result |-> prompt_result, escapes |-> escapes,
     stream_call |-> stream_call, stream |-> stream, fallback |-> fallback,
     mkdtemp |-> mkdtemp]

\* The streaming call answers and the stream is consumed to its end.
StreamEnvs ==
    {Env("ok", GeneratedPrompt, FALSE, "ok", MkStream(np, imgs), RaisingResponse, "ok") :
        np \in 0..MaxPar, imgs \in ImageSeqs}

FewImageSeqs ==
    {Images(MinImages, 1, k, bad) : k \in 0..2, bad \in {"corrupt", "unreadable"}}

Fallbacks ==
    {MkResponse(np, imgs) : np \in {0, MinSegments - 1, MinSegments}, imgs \in FewImageSeqs}
    \cup {RaisingResponse, ImagesOnlyResponse(Images(MinImages, 1, 0, "valid")),
          MkResponse(MinSegments, <<>>)}

ChunkFaults == {"iter", "json_iter", "json", "error", "json_parts", "error_parts"}

\* The streaming call raises, or chunk k of the stream does.
FaultEnvs ==
    {Env("ok", GeneratedPrompt, FALSE, "raise", <<>>, fb, "ok") : fb \in Fallbacks}
    \cup {Env("ok", GeneratedPrompt, FALSE, "ok",
              [MkStream(MaxPar, imgs) EXCEPT ![k].fault = fault], fb, "ok") :
             imgs \in FewImageSeqs, k \in {1, 2, MaxPar}, fault \in {"iter", "json_iter"},
             fb \in Fallbacks}
    \cup {Env("ok", GeneratedPrompt, FALSE, "ok",
              [MkStream(MaxPar, imgs) EXCEPT ![k].fault = fault], RaisingResponse, "ok") :
             imgs \in FewImageSeqs, k \in {1, 2, MaxPar}, fault \in ChunkFaults}

\* The other answers: the set-up fails, the prompt is the one of the model or
\* the procedural one (retry_api_call never hands generate a missing prompt),
\* an exception leaves generate, the directory cannot be made.
OtherEnvs ==
    {Env(setup, prompt_result, escapes, "ok",
         MkStream(MinSegments, Images(MinImages, 1, 0, "valid")), RaisingResponse, mkdtemp) :
        setup \in {"ok", "configure_error", "model_error"},
        prompt_result \in {GeneratedPrompt, ProceduralPrompt},
        escapes \in BOOLEAN, mkdtemp \in {"ok", "raise"}}

\* A story whose text begins with head and whose first paragraph is first.
ShapedText(head, first, np) ==
    head \o first
         \o SubSeq(StoryText(np), Len(Paragraph(1)) + 1, Len(StoryText(np)))

ShapedTexts ==
    {ShapedText(head, first, np) :
        head \in {<<>>, Boundary}, first \in {Paragraph(1), <<"T">>},
        np \in {MinSegments - 1, MinSegments}}

\* The stream that brings text in chunks of k characters, all the images
\* with the first chunk.
RECURSIVE TextStream(_, _, _)
TextStream(text, k, parts) ==
    IF text = <<>> THEN <<>>
    ELSE IF Len(text) <= k THEN <<Chunk(text, <<TextPart>> \o parts, "none")>>
    ELSE <<Chunk(SubSeq(text, 1, k), <<TextPart>> \o parts, "none")>>
             \o TextStream(SubSeq(text, k + 1, Len(text)), k, <<>>)

\* The same text and the same images by the stream, cut in any of several
\* ways, and by the response of the non-streaming call.
TextEnvs ==
    LET parts == ImageParts(Images(MaxImages, 1, 0, "valid"), 1, MaxImages)
    IN {Env("ok", GeneratedPrompt, FALSE, "ok", TextStream(text, k, parts),
            RaisingResponse, "ok") :
           text \in ShapedTexts, k \in 1..MaxChunkSize}
       \cup {Env("ok", GeneratedPrompt, FALSE, "ok", TextStream(text, Len(text), parts),
                 RaisingResponse, "ok") : text \in ShapedTexts}
       \cup {Env("ok", GeneratedPrompt, FALSE, "raise", <<>>,
                 [raises |-> FALSE, has_text |-> TRUE, text |-> text,
                  parts |-> <<TextPart>> \o parts], "ok") : text \in ShapedTexts}
       \cup {Env("ok", GeneratedPrompt, FALSE, "ok",
                 TextStream(StoryText(MinSegments), MaxChunkSize,
                            ImageParts(Images(MaxImages, b, 1, "unreadable"), 1, MaxImages)),
                 RaisingResponse, "ok") : b \in 1..MaxImages}

SessionEnvs == StreamEnvs \cup FaultEnvs \cup OtherEnvs \cup TextEnvs

(***************************************************************************)
(* retry_story_generation                                                  *)
(***************************************************************************)
NoFrame == [pc |-> "none"]

\* retry_api_call, generate_prompt is not running.
NoCall == [pc |-> "none"]

\* No call of generate_fallback_prompt was made.
NoFallback == [state |-> <<>>, prompt_input |-> <<>>, prompt |-> <<>>]

InitResults ==
    [story_text |-> NoneStr, image_files |-> <<>>, output_path |-> NoneStr,
     thumbnail_path |-> NoneStr, metadata |-> NoneStr,
     temp_dir |-> NoDir, prompt_text |-> NoneStr]

\* utils.media_utils.collect_complete_story(story_text, return_segments=True):
\* the blocks of the text delimited by blank lines that are not empty.
collect_complete_story(story_text) == NonBlank(SplitAll(story_text))

\* Faulty variant of check_generation_status: the images are not counted.
check_generation_status_no_image_count(res, flag) ==
    IF ~TruthyStr(res.story_text) \/ res.image_files = <<>> THEN flag
    ELSE IF Len(collect_complete_story(res.story_text)) < MinSegments THEN flag
    ELSE TRUE

\* check_generation_status(): the value of the success flag after it.
check_generation_status(res, flag) ==
    IF ~TruthyStr(res.story_text) \/ res.image_files = <<>> THEN flag
    ELSE IF Len(collect_complete_story(res.story_text)) < MinSegments THEN flag
    ELSE IF Len(res.image_files) < MinImages THEN flag
    ELSE TRUE

\* generation_wrapper(): the results dictionary after generate returned result.
UpdateResults(res, result) ==
    IF result = None THEN res
    ELSE [res EXCEPT
            !.story_text = IF TruthyStr(result.story_text) THEN result.story_text ELSE @,
            !.image_files = IF result.image_files # <<>> THEN result.image_files ELSE @,
            !.temp_dir = IF result.temp_dir # NoDir THEN result.temp_dir ELSE @,
            !.prompt_text = IF TruthyStr(result.prompt_text) THEN result.prompt_text ELSE @]

\* The directories a results dictionary still names.
DirsOf(res) ==
    (IF res.temp_dir # NoDir THEN {res.temp_dir} ELSE {})
        \cup {res.image_files[i].dir : i \in 1..Len(res.image_files)}

Init ==
    /\ args \in {[use_prompt_generator |-> u, prompt_input |-> Guidance] : u \in BOOLEAN}
    /\ pc = "loop"
    /\ success = FALSE
    /\ retry_count = 0
    /\ results = InitResults
    /\ returned = None
    /\ slept = 0
    /\ last_nonnull = None
    /\ locals = NoFrame
    /\ tmp_dirs = {SupervisorDir}
    /\ calls = 0
    /\ retrier = NoCall
    /\ acquirer = NoCall
    /\ rng = <<>>
    /\ fb_history = [prev |-> NoFallback, last |-> NoFallback]
    /\ runner = NoCall
    /\ main = NoCall

\* Faulty variant of StartAttempt: the attempt is not counted.
StartAttemptNoCount ==
    /\ pc = "loop"
    /\ ~success /\ retry_count < max_retries
    /\ pc' = "generating"
    /\ UNCHANGED <<acquirer, rng, fb_history, retrier, runner, main, args, success, retry_count, results, returned, slept, last_nonnull, locals, tmp_dirs, calls>>

\* while not success and retry_count < max_retries: retry_count += 1
StartAttempt ==
    /\ pc = "loop"
    /\ ~success /\ retry_count < max_retries
    /\ retry_count' = retry_count + 1
    /\ pc' = "generating"
    /\ UNCHANGED <<acquirer, rng, fb_history, retrier, runner, main, args, success, results, returned, slept, last_nonnull, locals, tmp_dirs, calls>>

\* What the model answers to the calls of generate made by the supervisor:
\* a complete story, too few paragraphs with more images than needed, too few
\* images, images that cannot be decoded, and an exception that leaves generate.
SupervisorEnvs ==
    {Env("ok", GeneratedPrompt, FALSE, "ok", MkStream(MinSegments, Images(MinImages, 1, 0, "valid")),
         RaisingResponse, "ok"),
     Env("ok", GeneratedPrompt, FALSE, "ok", MkStream(MinSegments - 1, Images(MinImages + 2, 1, 0, "valid")),
         RaisingResponse, "ok"),
     Env("ok", GeneratedPrompt, FALSE, "ok", MkStream(MinSegments + 1, Images(MinImages - 3, 1, 0, "valid")),
         RaisingResponse, "ok"),
     Env("ok", GeneratedPrompt, FALSE, "ok", MkStream(MinSegments, Images(2, 1, 2, "undecodable")),
         RaisingResponse, "ok"),
     Env("ok", GeneratedPrompt, TRUE, "ok", <<>>, RaisingResponse, "ok")}

\* Faulty variant of GenerationWrapper: generation_wrapper has no except
\* clause, and what generate raises leaves retry_story_generation.
GenerationWrapperUncaught ==
    /\ pc = "generating"
    /\ \E env \in SupervisorEnvs :
         \E F \in {Generate(args.use_prompt_generator, args.prompt_input, env,
                            tmp_dirs \cup {MkDtemp(tmp_dirs)})} :
            /\ locals' = F
            /\ IF F.pc = "raised"
               THEN /\ pc' = "raised"
                    /\ UNCHANGED <<results, success, last_nonnull>>
               ELSE /\ pc' = "attempted"
                    /\ results' = UpdateResults(results, F.ret)
                    /\ success' = check_generation_status(results', success)
                    /\ last_nonnull' = IF F.ret = None THEN last_nonnull ELSE F.ret
    /\ tmp_dirs' = {SupervisorDir} \cup DirsOf(results')
    /\ calls' = calls + 1
    /\ UNCHANGED <<acquirer, rng, fb_history, retrier, runner, main, args, retry_count, returned, slept>>

\* Faulty variant of GenerationWrapper: the attempt counts as a success as
\* soon as generate comes back without raising, whatever it returned.
GenerationWrapperSuccessOnReturn ==
    /\ pc = "generating"
    /\ \E env \in SupervisorEnvs :
         \E F \in {Generate(args.use_prompt_generator, args.prompt_input, env,
                            tmp_dirs \cup {MkDtemp(tmp_dirs)})} :
            /\ locals' = F
            /\ IF F.pc = "raised"
               THEN UNCHANGED <<results, success, last_nonnull>>
               ELSE /\ results' = UpdateResults(results, F.ret)
                    /\ success' = TRUE
                    /\ last_nonnull' = IF F.ret = None THEN last_nonnull ELSE F.ret
    /\ tmp_dirs' = {SupervisorDir} \cup DirsOf(results')
    /\ calls' = calls + 1
    /\ pc' = "attempted"
    /\ UNCHANGED <<acquirer, rng, fb_history, retrier, runner, main, args, retry_count, returned, slept>>

\* generation_wrapper(), the call of generate included.  A directory that no
\* value names any more is forgotten: its name is never compared again.
GenerationWrapper ==
    /\ pc = "generating"
    /\ \E env \in SupervisorEnvs :
         \E F \in {Generate(args.use_prompt_generator, args.prompt_input, env,
                            tmp_dirs \cup {MkDtemp(tmp_dirs)})} :
            /\ locals' = F
            /\ IF F.pc = "raised"
               THEN UNCHANGED <<results, success, last_nonnull>>
               ELSE /\ results' = UpdateResults(results, F.ret)
                    /\ success' = check_generation_status(results', success)
                    /\ last_nonnull' = IF F.ret = None THEN last_nonnull ELSE F.ret
    /\ tmp_dirs' = {SupervisorDir} \cup DirsOf(results')
    /\ calls' = calls + 1
    /\ pc' = "attempted"
    /\ UNCHANGED <<acquirer, rng, fb_history, retrier, runner, main, args, retry_count, returned, slept>>

\* if success: break, and the return after the loop
BreakOnSuccess ==
    /\ pc = "attempted"
    /\ success
    /\ pc' = "done"
    /\ returned' = results
    /\ UNCHANGED <<acquirer, rng, fb_history, retrier, runner, main, args, success, retry_count, results, slept, last_nonnull, locals, tmp_dirs, calls>>

\* Faulty variant of Sleep: the loop goes on without sleeping.
SleepSkipped ==
    /\ pc = "attempted"
    /\ ~success
    /\ pc' = "loop"
    /\ locals' = NoFrame
    /\ UNCHANGED <<acquirer, rng, fb_history, retrier, runner, main, args, success, retry_count, results, returned, slept, last_nonnull, tmp_dirs, calls>>

\* time.sleep(retry_delay) is entered; the frames of the attempt are gone
Sleep ==
    /\ pc = "attempted"
    /\ ~success
    /\ pc' = "sleeping"
    /\ locals' = NoFrame
    /\ UNCHANGED <<acquirer, rng, fb_history, retrier, runner, main, args, success, retry_count, results, returned, slept, last_nonnull, tmp_dirs, calls>>

\* time.sleep(retry_delay) returns
WakeUp ==
    /\ pc = "sleeping"
    /\ slept' = slept + retry_delay
    /\ pc' = "loop"
    /\ UNCHANGED <<acquirer, rng, fb_history, retrier, runner, main, args, success, retry_count, results, returned, last_nonnull, locals, tmp_dirs, calls>>

\* The loop ends at the ceiling: return results
ExitLoop ==
    /\ pc = "loop"
    /\ ~(~success /\ retry_count < max_retries)
    /\ pc' = "done"
    /\ returned' = results
    /\ UNCHANGED <<acquirer, rng, fb_history, retrier, runner, main, args, success, retry_count, results, slept, last_nonnull, locals, tmp_dirs, calls>>

Next ==
    \/ StartAttempt
    \/ GenerationWrapper
    \/ BreakOnSuccess
    \/ Sleep
    \/ WakeUp
    \/ ExitLoop

Spec == Init /\ [][Next]_vars

(***************************************************************************)
(* generate() step by step, called MaxSessionAttempts times one call after *)
(* the other; here every directory keeps its name.                         *)
(***************************************************************************)
session_rest == <<acquirer, rng, fb_history, retrier, runner, main, args, pc, success, retry_count, results, returned, slept, last_nonnull>>

\* generate(...) is called
SessionCall ==
    /\ locals.pc = "none"
    /\ calls < MaxSessionAttempts
    /\ \E env \in SessionEnvs :
         locals' = NewFrame(args.use_prompt_generator, args.prompt_input, env, tmp_dirs)
    /\ calls' = calls + 1
    /\ UNCHANGED <<session_rest, tmp_dirs>>

SessionSetup ==
    /\ locals.pc = "setup"
    /\ locals' = Setup(locals)
    /\ UNCHANGED <<session_rest, tmp_dirs, calls>>

SessionPrompt ==
    /\ locals.pc = "prompt"
    /\ locals' = AcquirePrompt(locals)
    /\ UNCHANGED <<session_rest, tmp_dirs, calls>>

SessionStreamCall ==
    /\ locals.pc = "stream_call"
    /\ locals' = StreamCall(locals)
    /\ UNCHANGED <<session_rest, tmp_dirs, calls>>

SessionChunk ==
    /\ locals.pc = "streaming" /\ locals.stream # <<>>
    /\ locals' = ProcessChunk(locals)
    /\ UNCHANGED <<session_rest, tmp_dirs, calls>>

SessionEndOfStream ==
    /\ locals.pc = "streaming" /\ locals.stream = <<>>
    /\ locals' = EndOfStream(locals)
    /\ UNCHANGED <<session_rest, tmp_dirs, calls>>

SessionFallback ==
    /\ locals.pc = "fallback"
    /\ locals' = Fallback(locals)
    /\ UNCHANGED <<session_rest, tmp_dirs, calls>>

SessionClean ==
    /\ locals.pc = "clean"
    /\ locals' = CleanSegments(locals)
    /\ UNCHANGED <<session_rest, tmp_dirs, calls>>

SessionMakeTempDir ==
    /\ locals.pc = "mkdtemp"
    /\ locals' = MakeTempDir(locals)
    /\ tmp_dirs' = IF locals'.temp_dir # NoDir THEN tmp_dirs \cup {locals'.temp_dir} ELSE tmp_dirs
    /\ UNCHANGED <<session_rest, calls>>

SessionSaveImage ==
    /\ locals.pc = "saving"
    /\ locals' = SaveImage(locals)
    /\ UNCHANGED <<session_rest, tmp_dirs, calls>>

SessionFinalChecks ==
    /\ locals.pc = "final_checks"
    /\ locals' = FinalChecks(locals)
    /\ UNCHANGED <<session_rest, tmp_dirs, calls>>

\* The call is over: its frame is gone.
SessionExit ==
    /\ locals.pc \in {"returned", "raised"}
    /\ locals' = NoFrame
    /\ UNCHANGED <<session_rest, tmp_dirs, calls>>

NextSession ==
    \/ SessionCall
    \/ SessionSetup
    \/ SessionPrompt
    \/ SessionStreamCall
    \/ SessionChunk
    \/ SessionEndOfStream
    \/ SessionFallback
    \/ SessionClean
    \/ SessionMakeTempDir
    \/ SessionSaveImage
    \/ SessionFinalChecks
    \/ SessionExit

SpecSession == Init /\ [][NextSession]_vars

(***************************************************************************)
(* retry_story_generation with a KeyboardInterrupt delivered to it         *)
(***************************************************************************)
\* KeyboardInterrupt is raised in generate or in time.sleep.  It is no
\* Exception: no except clause of generate, of generation_wrapper or of the
\* loop handles it, and it leaves retry_story_generation.
Interrupt ==
    /\ pc \in {"generating", "sleeping"}
    /\ pc' = "interrupted"
    /\ UNCHANGED <<acquirer, rng, fb_history, retrier, runner, main, args, success, retry_count, results, returned, slept, last_nonnull, locals, tmp_dirs, calls>>

NextInterrupt ==
    \/ StartAttempt
    \/ GenerationWrapper
    \/ BreakOnSuccess
    \/ Sleep
    \/ WakeUp
    \/ ExitLoop
    \/ Interrupt

SpecInterrupt == Init /\ [][NextInterrupt]_vars

(***************************************************************************)
(* retry_api_call of utils/api_utils.py                                    *)
(*                                                                         *)
(* One invocation of the wrapped operation either raises an error or       *)
(* returns a value.  An error is known by the phrase its message holds,    *)
(* which is what the handler tests.  A returned value is None, an empty    *)
(* (falsy) value, or a response: a dict or another object, with a number   *)
(* of text parts that hold the marker "**Image Description:**".            *)
(***************************************************************************)
ContentCalls == {"generate_content_stream", "generate_content"}

OperationNames == ContentCalls \cup {"generate_prompt"}

ErrorClasses ==
    {"500", "503", "429", "400", "ResourceExhausted", "grpc",
     "model_not_found", "content_blocked", "unknown"}

Error(class) ==
    [kind |-> "error", class |-> class, is_dict |-> FALSE, markers |-> 0]

NoneResult ==
    [kind |-> "result", class |-> "none", is_dict |-> FALSE, markers |-> 0]

EmptyResult ==
    [kind |-> "result", class |-> "empty", is_dict |-> FALSE, markers |-> 0]

Response(is_dict, markers) ==
    [kind |-> "result", class |-> "response", is_dict |-> is_dict,
     markers |-> markers]

NoOutcome ==
    [kind |-> "none", class |-> "none", is_dict |-> FALSE, markers |-> 0]

Outcomes ==
    {Error(class) : class \in ErrorClasses}
        \cup {NoneResult, EmptyResult}
        \cup {Response(d, m) : d \in BOOLEAN, m \in 0..MaxMarkerParts}

\* `if result:`
Truthy(result) == result.class = "response"

\* The frame after lines 15-17.  since_call is the sequence of the sleeps
\* made since the operation was last invoked; log is a history of the failed
\* invocations and of the sleep that followed each, kept while fewer than
\* MaxLog invocations were made.
NewCall(name) ==
    [pc |-> "loop", name |-> name, attempt |-> 0, outcome |-> NoOutcome,
     since_call |-> <<>>, log |-> <<>>, ret |-> NoneResult]

\* time.sleep(delay), then the next turn of the while loop.
SleepAndRetry(R, delay) ==
    [R EXCEPT !.pc = "loop",
              !.since_call = Append(@, delay),
              !.log = IF R.attempt < MaxLog
                      THEN Append(@, [outcome |-> R.outcome, slept |-> delay])
                      ELSE <<>>]

\* Lines 33-40: one sleep for every text part of a dict response that holds
\* the marker; the `continue` goes on with the loop over the parts.
MarkerSleeps(result) ==
    IF result.is_dict
    THEN [i \in 1..result.markers |-> api_retry_delay]
    ELSE <<>>

\* Variant: a None result of another operation is handed to the caller.
AfterResultReturnsNone(R) ==
    IF R.name \in ContentCalls
    THEN IF Truthy(R.outcome)
         THEN [R EXCEPT !.pc = "done", !.ret = R.outcome,
                        !.since_call = @ \o MarkerSleeps(R.outcome)]
         ELSE SleepAndRetry(R, api_retry_delay)
    ELSE [R EXCEPT !.pc = "done", !.ret = R.outcome]

\* Variant: every operation is held to the test of the content calls.
AfterResultTruthyForAll(R) ==
    IF Truthy(R.outcome)
    THEN [R EXCEPT !.pc = "done", !.ret = R.outcome,
                   !.since_call = @ \o MarkerSleeps(R.outcome)]
    ELSE SleepAndRetry(R, api_retry_delay)

\* Lines 26-55 and 84: the operation returned R.outcome.
AfterResult(R) ==
    IF R.name \in ContentCalls
    THEN IF Truthy(R.outcome)
         THEN [R EXCEPT !.pc = "done", !.ret = R.outcome,
                        !.since_call = @ \o MarkerSleeps(R.outcome)]
         ELSE SleepAndRetry(R, api_retry_delay)
    ELSE IF R.outcome # NoneResult
         THEN [R EXCEPT !.pc = "done", !.ret = R.outcome]
         ELSE SleepAndRetry(R, api_retry_delay)

\* Variant: a 400 error leaves the function.
AfterErrorRaisesBadRequest(R) ==
    IF R.outcome.class = "429"
    THEN SleepAndRetry(R, api_retry_delay * 2)
    ELSE IF R.outcome.class = "400"
         THEN [R EXCEPT !.pc = "raised"]
         ELSE SleepAndRetry(R, api_retry_delay)

\* Variant: the same delay after every error.
AfterErrorFixedDelay(R) ==
    SleepAndRetry(R, api_retry_delay)

\* Lines 57-84: the operation raised R.outcome.  The 429 branch sleeps and
\* continues; every other branch prints and reaches the sleep of line 84.
AfterError(R) ==
    IF R.outcome.class = "429"
    THEN SleepAndRetry(R, api_retry_delay * 2)
    ELSE SleepAndRetry(R, api_retry_delay)

retrier_rest ==
    <<acquirer, rng, fb_history, runner, main, args, pc, success, retry_count, results, returned, slept,
      last_nonnull, locals, tmp_dirs, calls>>

\* retry_api_call(retry_function, ...) is called.
RetryApiCall ==
    /\ retrier.pc = "none"
    /\ \E name \in OperationNames : retrier' = NewCall(name)
    /\ UNCHANGED retrier_rest

\* Lines 19-23: one more turn of the loop, the operation is invoked.
InvokeOperation ==
    /\ retrier.pc = "loop"
    /\ retrier.attempt < max_consecutive_failures
    /\ \E outcome \in Outcomes :
           retrier' = [retrier EXCEPT !.pc = "called",
                                      !.attempt = @ + 1,
                                      !.outcome = outcome,
                                      !.since_call = <<>>]
    /\ UNCHANGED retrier_rest

\* Lines 26-84: the rest of the turn.
HandleOutcome ==
    /\ retrier.pc = "called"
    /\ retrier' = IF retrier.outcome.kind = "error"
                  THEN AfterError(retrier)
                  ELSE AfterResult(retrier)
    /\ UNCHANGED retrier_rest

\* Lines 86-87: the loop has ended.
GiveUp ==
    /\ retrier.pc = "loop"
    /\ retrier.attempt >= max_consecutive_failures
    /\ retrier' = [retrier EXCEPT !.pc = "done", !.ret = NoneResult]
    /\ UNCHANGED retrier_rest

NextRetrier ==
    \/ RetryApiCall
    \/ InvokeOperation
    \/ HandleOutcome
    \/ GiveUp

SpecRetrier == Init /\ [][NextRetrier]_vars

(***************************************************************************)
(* generate_prompt and generate_fallback_prompt of                         *)
(* generators/prompt_generator.py                                          *)
(*                                                                         *)
(* In the text of a prompt the two required phrases, the name of an animal *)
(* and the name of a setting each stand as one element.                    *)
(***************************************************************************)
QUOTE == "\""
LETTER == "x"

PhraseA == <<"Generate a story about">>
PhraseB == <<"going on an adventure in">>

\* sub in s
Contains(s, sub) ==
    \E i \in 1..(Len(s) - Len(sub) + 1) : SubSeq(s, i, i + Len(sub) - 1) = sub

\* re.search(r'\"(.+?)\"', s): <<i, j>> are the indexes of the two quotes of
\* the leftmost match, the group being as short as it can be; <<0, 0>> without
\* a match.  The dot does not match a newline.
IsQuoted(s, i, j) ==
    /\ s[i] = QUOTE
    /\ s[j] = QUOTE
    /\ j >= i + 2
    /\ \A k \in (i + 1)..(j - 1) : s[k] # NL

SearchQuoted(s) ==
    LET starts == {i \in 1..Len(s) : \E j \in 1..Len(s) : IsQuoted(s, i, j)}
    IN IF starts = {} THEN <<0, 0>>
       ELSE LET i == CHOOSE a \in starts : \A b \in starts : a <= b
                j == CHOOSE a \in 1..Len(s) :
                         /\ IsQuoted(s, i, a)
                         /\ \A b \in 1..Len(s) : IsQuoted(s, i, b) => a <= b
            IN <<i, j>>

animals ==
    <<"fox", "bear", "rabbit", "elephant", "tiger", "penguin", "koala",
      "turtle", "lion", "dolphin">>

settings ==
    <<"enchanted forest", "snowy mountain", "deep ocean", "outer space",
      "desert oasis", "ancient castle", "tropical island", "underwater cave",
      "cloud city", "magical garden">>

\* The f-string of line 132.
FallbackTemplate(animal, setting) ==
    PhraseA \o <<" a clever ", animal, SP>> \o PhraseB
        \o <<" a ", setting, " in a highly detailed 3d cartoon animation style. ...">>

\* The generator of the random module is known by the results of its next
\* draws: rng is the sequence of the values that the coming calls of
\* random.choice take as indexes.
Tapes == {<<a, b>> : a \in 0..MaxDraw, b \in 0..MaxDraw}

PromptInputs == {<<"Create a children's story">>, <<>>}

\* Variant: the animal depends on the guidance text as well.
generate_fallback_prompt_by_input(prompt_input, state) ==
    [prompt |-> FallbackTemplate(animals[state[1] + Len(prompt_input) + 1],
                                 settings[state[2] + 1]),
     rng |-> SubSeq(state, 3, Len(state))]

\* generate_fallback_prompt(prompt_input) called in the generator state
\* `state`: the prompt it returns and the state it leaves.
generate_fallback_prompt(prompt_input, state) ==
    [prompt |-> FallbackTemplate(animals[state[1] + 1],
                                 settings[state[2] + 1]),
     rng |-> SubSeq(state, 3, Len(state))]

\* A chunk of the stream: it has a text attribute or not, and handling it
\* raises or not.  chunks_seen of the frame is the history of the chunks of
\* the stream that is being consumed.
PromptChunk(has_text, text, raises) ==
    [has_text |-> has_text, text |-> text, raises |-> raises]

Pieces == {PhraseA, PhraseB, <<QUOTE>>, <<SP>>, <<NL>>, <<LETTER>>}

PromptChunks ==
    {PromptChunk(TRUE, t, FALSE) : t \in {PhraseA, PhraseB, <<QUOTE>>, <<SP>>}}
        \cup {PromptChunk(FALSE, <<>>, FALSE), PromptChunk(TRUE, PhraseA, TRUE)}

\* The texts made of at most n pieces.
RECURSIVE TextsOf(_)
TextsOf(n) ==
    IF n = 0 THEN {<<>>}
    ELSE LET shorter == TextsOf(n - 1)
         IN shorter \cup {t \o piece : t \in shorter, piece \in Pieces}

\* The answer of model.generate_content: the call raises, the response has
\* no text attribute, or its text is a string or None.
PromptResponses ==
    {[kind |-> "raises", text |-> <<>>], [kind |-> "no_text", text |-> <<>>],
     [kind |-> "text", text |-> NoneStr]}
        \cup {[kind |-> "text", text |-> t] : t \in TextsOf(MaxResponsePieces)}

\* No call of model.generate_content was made.
NoResponse == [kind |-> "none", text |-> <<>>]

\* Lines 70-77 for one chunk.
AddChunk(generated_prompt, chunk) ==
    IF ~chunk.raises /\ chunk.has_text /\ chunk.text # <<>>
    THEN generated_prompt \o chunk.text
    ELSE generated_prompt

\* Variant: the second test of the format is not made.
CheckFormatOnce(generated_prompt) ==
    IF generated_prompt = NoneStr THEN NoneStr
    ELSE LET stripped == Strip(generated_prompt)
             m == SearchQuoted(stripped)
         IN IF ~Contains(stripped, PhraseA) \/ ~Contains(stripped, PhraseB)
            THEN IF m[1] > 0 THEN SubSeq(stripped, m[1] + 1, m[2] - 1)
                 ELSE stripped
            ELSE stripped

\* Lines 99-117: the prompt that is returned, NoneStr when the fallback
\* prompt is to be returned in its place.  None has no strip(); the error is
\* taken by line 119.
CheckFormat(generated_prompt) ==
    IF generated_prompt = NoneStr THEN NoneStr
    ELSE LET stripped == Strip(generated_prompt)
             m == SearchQuoted(stripped)
             extracted == IF m[1] > 0
                          THEN SubSeq(stripped, m[1] + 1, m[2] - 1)
                          ELSE stripped
         IN IF ~Contains(stripped, PhraseA) \/ ~Contains(stripped, PhraseB)
            THEN IF ~Contains(extracted, PhraseA) THEN NoneStr ELSE extracted
            ELSE stripped

acquirer_rest ==
    <<fb_history, retrier, runner, main, args, pc, success, retry_count, results, returned,
      slept, last_nonnull, locals, tmp_dirs, calls>>

\* return generate_fallback_prompt(prompt_input), the generator being in any
\* of its states.
ReturnFallback(F) ==
    \E state \in Tapes :
        /\ acquirer' = [F EXCEPT
               !.pc = "done",
               !.by_fallback = TRUE,
               !.ret = generate_fallback_prompt(F.prompt_input, state).prompt]
        /\ rng' = generate_fallback_prompt(F.prompt_input, state).rng

\* Lines 19-67: the call, up to the stream.  The set-up may raise, which is
\* taken by line 119; the call that opens the stream may raise, which is
\* taken by line 78.
StartPrompt(prompt_input, use_streaming, fate) ==
    LET F == [pc |-> "streaming", prompt_input |-> prompt_input,
              use_streaming |-> use_streaming,
              generated_prompt |-> <<>>, chunks_seen |-> <<>>,
              response |-> NoResponse,
              by_fallback |-> FALSE, ret |-> NoneStr]
    IN IF fate = "setup_raises"
       THEN ReturnFallback(F)
       ELSE /\ acquirer' =
                   IF use_streaming /\ fate = "ok" THEN F
                   ELSE [F EXCEPT !.pc = "non_streaming",
                                  !.use_streaming = FALSE]
            /\ rng' = rng

PromptFates == {"setup_raises", "stream_raises", "ok"}

\* generate_prompt(prompt_input, use_streaming) is called.
GeneratePrompt ==
    /\ acquirer.pc = "none"
    /\ \E prompt_input \in PromptInputs, use_streaming \in BOOLEAN,
          fate \in PromptFates :
           StartPrompt(prompt_input, use_streaming, fate)
    /\ UNCHANGED acquirer_rest

\* Variant: a chunk that raises ends the streaming.
PromptStreamChunkStopsOnError ==
    /\ acquirer.pc = "streaming"
    /\ Len(acquirer.chunks_seen) < MaxPromptChunks
    /\ \E chunk \in PromptChunks :
           acquirer' = [acquirer EXCEPT
               !.pc = IF chunk.raises THEN "validate" ELSE @,
               !.generated_prompt = AddChunk(@, chunk),
               !.chunks_seen = Append(@, chunk)]
    /\ UNCHANGED <<rng, acquirer_rest>>

\* Lines 70-77: the stream gives one more chunk.
PromptStreamChunk ==
    /\ acquirer.pc = "streaming"
    /\ Len(acquirer.chunks_seen) < MaxPromptChunks
    /\ \E chunk \in PromptChunks :
           acquirer' = [acquirer EXCEPT
               !.generated_prompt = AddChunk(@, chunk),
               !.chunks_seen = Append(@, chunk)]
    /\ UNCHANGED <<rng, acquirer_rest>>

\* Line 70: the stream is exhausted.
PromptStreamEnds ==
    /\ acquirer.pc = "streaming"
    /\ acquirer' = [acquirer EXCEPT !.pc = "validate"]
    /\ UNCHANGED <<rng, acquirer_rest>>

\* Lines 78-81: the stream raises; what was received stays in
\* generated_prompt.
PromptStreamRaises ==
    /\ acquirer.pc = "streaming"
    /\ acquirer' = [acquirer EXCEPT !.pc = "non_streaming",
                                    !.use_streaming = FALSE,
                                    !.chunks_seen = <<>>]
    /\ UNCHANGED <<rng, acquirer_rest>>

\* Lines 84-97.
NonStreaming ==
    /\ acquirer.pc = "non_streaming"
    /\ \E response \in PromptResponses :
           IF response.kind = "raises"
           THEN ReturnFallback([acquirer EXCEPT !.response = response])
           ELSE /\ acquirer' = [acquirer EXCEPT
                       !.pc = "validate",
                       !.response = response,
                       !.generated_prompt =
                           IF response.kind = "text" THEN response.text ELSE @]
                /\ rng' = rng
    /\ UNCHANGED acquirer_rest

\* Variant: a text that fails the format check makes generate_prompt return
\* None.
ValidateReturnsNone ==
    /\ acquirer.pc = "validate"
    /\ LET prompt == CheckFormat(acquirer.generated_prompt)
       IN acquirer' = [acquirer EXCEPT !.pc = "done", !.ret = prompt]
    /\ UNCHANGED <<rng, acquirer_rest>>

\* Lines 99-121.
Validate ==
    /\ acquirer.pc = "validate"
    /\ LET prompt == CheckFormat(acquirer.generated_prompt)
       IN IF prompt = NoneStr
          THEN ReturnFallback(acquirer)
          ELSE /\ acquirer' = [acquirer EXCEPT !.pc = "done", !.ret = prompt]
               /\ rng' = rng
    /\ UNCHANGED acquirer_rest

NextPrompt ==
    \/ GeneratePrompt
    \/ PromptStreamChunk
    \/ PromptStreamEnds
    \/ PromptStreamRaises
    \/ NonStreaming
    \/ Validate

SpecPrompt == Init /\ [][NextPrompt]_vars

(***************************************************************************)
(* generate() acquiring its prompt: retry_api_call(generate_prompt, ...)   *)
(* with generate_prompt run step by step, then the rest of generate.       *)
(***************************************************************************)
acquire_rest ==
    <<fb_history, runner, main, args, pc, success, retry_count, results, returned, slept,
      last_nonnull, tmp_dirs>>

\* What the story model answers in these calls: the answers given to the
\* supervisor, and a stream that breaks at its second chunk, followed by a
\* non-streaming call that answers with a complete story.
AcquireEnvs ==
    SupervisorEnvs
        \cup {Env("ok", GeneratedPrompt, FALSE, "ok",
                  [MkStream(MinSegments, Images(MinImages, 1, 0, "valid"))
                       EXCEPT ![2].fault = "iter"],
                  MkResponse(MinSegments, Images(MinImages, 1, 0, "valid")), "ok")}

\* generate(...) is called and reaches line 185.
AcquireCall ==
    /\ locals.pc = "none"
    /\ calls < MaxSessionAttempts
    /\ \E env \in AcquireEnvs :
         locals' = Setup(NewFrame(args.use_prompt_generator, args.prompt_input,
                                  env, tmp_dirs))
    /\ calls' = calls + 1
    /\ retrier' = NoCall
    /\ acquirer' = NoCall
    /\ UNCHANGED <<rng, acquire_rest>>

\* Lines 193-196 and the rest of generate: the guidance is the prompt.
AcquireDirect ==
    /\ locals.pc = "prompt"
    /\ ~locals.use_prompt_generator
    /\ locals' = Run(ChoosePrompt(locals, NoneStr))
    /\ UNCHANGED <<retrier, acquirer, rng, calls, acquire_rest>>

\* Line 186: retry_api_call(generate_prompt, prompt_input=prompt_input).
AcquireRetry ==
    /\ locals.pc = "prompt"
    /\ locals.use_prompt_generator
    /\ retrier.pc = "none"
    /\ retrier' = NewCall("generate_prompt")
    /\ UNCHANGED <<locals, acquirer, rng, calls, acquire_rest>>

\* One turn of the loop of retry_api_call: generate_prompt is invoked with
\* its default use_streaming, or the loop has ended and None is returned.
AcquireTurn ==
    /\ retrier.pc = "loop"
    /\ IF retrier.attempt < max_consecutive_failures
       THEN /\ retrier' = [retrier EXCEPT !.pc = "invoking",
                                          !.attempt = @ + 1,
                                          !.since_call = <<>>]
            /\ \E fate \in PromptFates :
                   StartPrompt(locals.prompt_input, TRUE, fate)
       ELSE /\ retrier' = [retrier EXCEPT !.pc = "done", !.ret = NoneResult]
            /\ UNCHANGED <<acquirer, rng>>
    /\ UNCHANGED <<locals, calls, acquire_rest>>

\* What retry_api_call sees of the value generate_prompt returned.
OutcomeOf(prompt) ==
    IF prompt = NoneStr THEN NoneResult
    ELSE IF prompt = <<>> THEN EmptyResult
    ELSE Response(FALSE, 0)

\* generate_prompt has returned: the rest of the turn of retry_api_call.
AcquireOutcome ==
    /\ retrier.pc = "invoking"
    /\ acquirer.pc = "done"
    /\ retrier' = AfterResult([retrier EXCEPT !.pc = "called",
                                              !.outcome = OutcomeOf(acquirer.ret)])
    /\ UNCHANGED <<locals, acquirer, rng, calls, acquire_rest>>

\* retry_api_call has returned: lines 187-196 and the rest of generate.
AcquireFinish ==
    /\ locals.pc = "prompt"
    /\ retrier.pc = "done"
    /\ LET prompt_result == IF retrier.ret = NoneResult THEN NoneStr
                            ELSE acquirer.ret
       IN locals' = Run(ChoosePrompt(locals, prompt_result))
    /\ UNCHANGED <<retrier, acquirer, rng, calls, acquire_rest>>

NextAcquire ==
    \/ AcquireCall
    \/ AcquireDirect
    \/ AcquireRetry
    \/ AcquireTurn
    \/ PromptStreamChunk
    \/ PromptStreamEnds
    \/ PromptStreamRaises
    \/ NonStreaming
    \/ Validate
    \/ AcquireOutcome
    \/ AcquireFinish
    \/ SessionExit

SpecAcquire == Init /\ [][NextAcquire]_vars

\* random.seed(...): the generator is put in a chosen state.
Seed ==
    /\ \E state \in Tapes : rng' = state
    /\ UNCHANGED <<acquirer, acquirer_rest>>

\* generate_fallback_prompt(prompt_input) is called.
CallFallback ==
    /\ Len(rng) >= 2
    /\ \E prompt_input \in PromptInputs :
           LET r == generate_fallback_prompt(prompt_input, rng)
           IN /\ rng' = r.rng
              /\ fb_history' = [prev |-> fb_history.last,
                                last |-> [state |-> rng,
                                          prompt_input |-> prompt_input,
                                          prompt |-> r.prompt]]
    /\ UNCHANGED <<acquirer, retrier, runner, main, args, pc, success, retry_count, results,
                   returned, slept, last_nonnull, locals, tmp_dirs, calls>>

NextFallback ==
    \/ Seed
    \/ CallFallback

SpecFallback == Init /\ [][NextFallback]_vars

(***************************************************************************)
(* continuous_runner.py: main() and save_generation_stats()                *)
(* The clock counts periods of generation_delay seconds.  generate_story   *)
(* is the function main of github_main.py: it returns True or False, or it *)
(* raises.                                                                 *)
(***************************************************************************)
GenerateOutcomes == {"true", "false", "raises"}

\* output/generation_stats.json before the run: absent, not JSON, or the
\* records of an earlier run.
StatsFiles ==
    {[kind |-> "absent", generations |-> <<>>],
     [kind |-> "corrupt", generations |-> <<>>],
     [kind |-> "records", generations |-> <<"success">>]}

\* save_generation_stats(stats), stats["status"] being status.
save_generation_stats(file, status) ==
    LET existing_stats == IF file.kind = "records" THEN file.generations
                          ELSE <<>>
    IN [kind |-> "records", generations |-> Append(existing_stats, status)]

runner_rest ==
    <<main, args, pc, success, retry_count, results, returned, slept,
      last_nonnull, locals, tmp_dirs, calls, retrier, acquirer, rng,
      fb_history>>

\* Lines 83-107: the arguments, the end time, the counter.  A duration of 0
\* gives no end time.
RunnerMain ==
    /\ runner.pc = "none"
    /\ \E count \in 0..MaxCount, duration \in 0..MaxDuration, file \in StatsFiles :
           runner' = [pc |-> "top", count |-> count, duration |-> duration,
                      end_time |-> IF duration > 0 THEN duration ELSE 0,
                      now |-> 0, stories_generated |-> 0, stats_file |-> file,
                      outcomes |-> <<>>, slept |-> 0, reason |-> "none"]
    /\ UNCHANGED runner_rest

\* Lines 111-124: the two tests at the top of the loop.
RunnerTop ==
    /\ runner.pc = "top"
    /\ IF runner.count > 0 /\ runner.stories_generated >= runner.count
       THEN runner' = [runner EXCEPT !.pc = "stopped", !.reason = "count"]
       ELSE IF runner.end_time # 0 /\ runner.now >= runner.end_time
            THEN runner' = [runner EXCEPT !.pc = "stopped", !.reason = "time"]
            ELSE /\ Len(runner.outcomes) < MaxGenerations
                 /\ runner' = [runner EXCEPT !.pc = "generating"]
    /\ UNCHANGED runner_rest

\* Faulty variant of RunnerGenerate: an exception of generate_story ends the
\* loop.
RunnerGenerateStopsOnError ==
    /\ runner.pc = "generating"
    /\ \E outcome \in GenerateOutcomes, elapsed \in 0..1 :
           runner' =
               IF outcome = "raises"
               THEN [runner EXCEPT !.pc = "stopped", !.reason = "error",
                                   !.outcomes = Append(@, outcome),
                                   !.now = @ + elapsed]
               ELSE [runner EXCEPT
                        !.pc = "waiting",
                        !.outcomes = Append(@, outcome),
                        !.now = @ + elapsed,
                        !.stats_file = save_generation_stats(@, "success"),
                        !.stories_generated = @ + 1]
    /\ UNCHANGED runner_rest

\* Lines 126-170: generate_story() is called, its value is dropped; the
\* statistics are saved and the counter is advanced, or the except clause
\* saves the statistics of the failure.
RunnerGenerate ==
    /\ runner.pc = "generating"
    /\ \E outcome \in GenerateOutcomes, elapsed \in 0..1 :
           runner' =
               IF outcome = "raises"
               THEN [runner EXCEPT
                        !.pc = "waiting",
                        !.outcomes = Append(@, outcome),
                        !.now = @ + elapsed,
                        !.stats_file = save_generation_stats(@, "error")]
               ELSE [runner EXCEPT
                        !.pc = "waiting",
                        !.outcomes = Append(@, outcome),
                        !.now = @ + elapsed,
                        !.stats_file = save_generation_stats(@, "success"),
                        !.stories_generated = @ + 1]
    /\ UNCHANGED runner_rest

\* Lines 172-174: time.sleep(30).
RunnerWait ==
    /\ runner.pc = "waiting"
    /\ runner' = [runner EXCEPT !.pc = "top",
                                !.slept = @ + generation_delay,
                                !.now = @ + 1]
    /\ UNCHANGED runner_rest

\* Lines 176-177: KeyboardInterrupt, raised in generate_story or in the sleep.
RunnerInterrupt ==
    /\ runner.pc \in {"generating", "waiting"}
    /\ runner' = [runner EXCEPT !.pc = "stopped", !.reason = "interrupt"]
    /\ UNCHANGED runner_rest

NextRunner ==
    \/ RunnerMain
    \/ RunnerTop
    \/ RunnerGenerate
    \/ RunnerWait
    \/ RunnerInterrupt

SpecRunner == Init /\ [][NextRunner]_vars

(***************************************************************************)
(* github_main.py: main(), the call of retry_story_generation included.    *)
(* main.stages is a history: the stages that ran, each with its outcome.   *)
(***************************************************************************)
main_rest == <<runner, args, retrier, acquirer, rng, fb_history>>

supervisor_vars ==
    <<pc, success, retry_count, results, returned, slept, last_nonnull, locals,
      tmp_dirs, calls>>

Stage(name, ok) == [name |-> name, ok |-> ok]

\* return False / return True
MainReturn(M, value) == [M EXCEPT !.pc = "returned", !.ret = value]

\* Lines 27-69: retry_story_generation(use_prompt_generator=True) is called.
MainCall ==
    /\ main.pc = "none"
    /\ pc = "loop" /\ retry_count = 0
    /\ args.use_prompt_generator
    /\ main' = [pc |-> "supervisor", stages |-> <<>>, ret |-> FALSE]
    /\ UNCHANGED <<main_rest, supervisor_vars>>

\* Line 69: retry_story_generation takes a step.
MainSupervisor ==
    /\ main.pc = "supervisor"
    /\ Next

\* Lines 69-86: retry_story_generation has returned; the test of its result.
MainResult ==
    /\ main.pc = "supervisor"
    /\ pc = "done"
    /\ LET complete == TruthyStr(returned.story_text) /\ returned.image_files # <<>>
           M == [main EXCEPT !.stages = Append(@, Stage("supervisor", complete))]
       IN main' = IF complete THEN [M EXCEPT !.pc = "audio"]
                  ELSE MainReturn(M, FALSE)
    /\ UNCHANGED <<main_rest, supervisor_vars>>

\* Lines 88-101: generate_audio returns a dictionary or None.
MainAudio ==
    /\ main.pc = "audio"
    /\ \E audio_results \in BOOLEAN :
           LET M == [main EXCEPT !.stages = Append(@, Stage("audio", audio_results))]
           IN main' = IF audio_results THEN [M EXCEPT !.pc = "video"]
                      ELSE MainReturn(M, FALSE)
    /\ UNCHANGED <<main_rest, supervisor_vars>>

\* Lines 103-107: generate_video returns a value that is true or false.
MainVideo ==
    /\ main.pc = "video"
    /\ \E video_results \in BOOLEAN :
           LET M == [main EXCEPT !.stages = Append(@, Stage("video", video_results))]
           IN main' = IF video_results THEN [M EXCEPT !.pc = "metadata"]
                      ELSE MainReturn(M, FALSE)
    /\ UNCHANGED <<main_rest, supervisor_vars>>

\* Lines 109-115: generate_seo_metadata always returns metadata, the default
\* ones when the model fails.
MainMetadata ==
    /\ main.pc = "metadata"
    /\ main' = [main EXCEPT !.pc = "thumbnail",
                            !.stages = Append(@, Stage("metadata", TRUE))]
    /\ UNCHANGED <<main_rest, supervisor_vars>>

\* Lines 117-135: generate_thumbnail returns a path, or None when it failed;
\* the files are copied and True is returned.
MainThumbnail ==
    /\ main.pc = "thumbnail"
    /\ \E thumbnail_path \in BOOLEAN :
           main' = MainReturn(
               [main EXCEPT !.stages = Append(@, Stage("thumbnail", thumbnail_path))],
               TRUE)
    /\ UNCHANGED <<main_rest, supervisor_vars>>

NextMain ==
    \/ MainCall
    \/ MainSupervisor
    \/ MainResult
    \/ MainAudio
    \/ MainVideo
    \/ MainMetadata
    \/ MainThumbnail

SpecMain == Init /\ [][NextMain]_vars

(***************************************************************************)
(* Properties                                                              *)
(***************************************************************************)
\* generate has returned a result that is not None.
ReturnedResult == locals.pc = "returned" /\ locals.ret # None

\* C1: every result of generate that is not None has at least 6 image files.
C1_ResultHasSixImages ==
    ReturnedResult => Len(locals.ret.image_files) >= MinImages

\* C2: every result of generate that is not None has at least 6 entries in
\* story_segments, on the streaming path and on the fallback path.
C2_ResultHasSixSegments ==
    ReturnedResult => Len(locals.ret.story_segments) >= MinSegments

\* A result with exactly 6 segments that came from the non-streaming fallback.
C2_Witness ==
    /\ ReturnedResult
    /\ locals.fallback_calls = 1
    /\ Len(locals.ret.story_segments) = MinSegments

\* C3: the success flag is set only when the held results have at least 6
\* story segments and at least 6 image files, and once it is set no attempt
\* is started and no sleep is performed.
C3_SuccessOnlyWhenCompleteThenStops ==
    /\ [](success => /\ Len(collect_complete_story(results.story_text)) >= MinSegments
                     /\ Len(results.image_files) >= MinImages)
    /\ [][success => /\ retry_count' = retry_count
                     /\ calls' = calls
                     /\ slept' = slept
                     /\ pc' \notin {"generating", "sleeping"}
                     /\ success']_vars

\* The supervisor returned with the flag set by its second or a later attempt.
C3_Witness ==
    /\ pc = "done" /\ success
    /\ retry_count >= 2
    /\ calls = retry_count
    /\ slept = retry_delay * (retry_count - 1)
    /\ Len(returned.image_files) >= MinImages

\* C4: when the supervisor returns, story_text, image_files, temp_dir and
\* prompt_text of its result all come from the most recent attempt that
\* returned a result that is not None.
C4_ResultFromOneAttempt ==
    (pc = "done" /\ last_nonnull # None) =>
        /\ returned.story_text = last_nonnull.story_text
        /\ returned.image_files = last_nonnull.image_files
        /\ returned.temp_dir = last_nonnull.temp_dir
        /\ returned.prompt_text = last_nonnull.prompt_text

\* The last call of generate failed: it raised, returned None, or returned a
\* result below the thresholds.
AttemptFailed ==
    \/ locals.pc = "raised"
    \/ /\ locals.pc = "returned"
       /\ \/ locals.ret = None
          \/ Len(locals.ret.story_segments) < MinSegments
          \/ Len(locals.ret.image_files) < MinImages

\* A stream of 5 paragraphs and 8 valid images.
FiveAndEight == MkStream(MinSegments - 1, Images(MinImages + 2, 1, 0, "valid"))

Remaining ==
    IF pc = "done" THEN -1
    ELSE 4 * (max_retries - retry_count)
         + (CASE pc = "generating" -> 3 [] pc = "attempted" -> 2
              [] pc = "sleeping" -> 1 [] OTHER -> 0)

C7_RaisedAttemptIsContained ==
    /\ [](pc \in {"loop", "generating", "attempted", "sleeping", "done"})
    /\ [][(pc = "generating" /\ locals'.pc = "raised")
             => /\ pc' = "attempted"
                /\ results' = results /\ success' = success
                /\ last_nonnull' = last_nonnull
                /\ calls' = calls + 1 /\ retry_count' = retry_count]_vars
    /\ [][(pc = "attempted" /\ locals.pc = "raised") => pc' = "sleeping"]_vars
    /\ []((pc = "attempted" /\ locals.pc = "raised") => AttemptFailed)

\* generate raised in a later attempt while results held a story.
C7_Witness ==
    /\ pc = "attempted" /\ locals.pc = "raised"
    /\ retry_count >= 2
    /\ TruthyStr(results.story_text)
    /\ results.story_text = last_nonnull.story_text

\* C8: an interrupt during an attempt or during the sleep is caught: the
\* supervisor returns the results it holds.
C8_InterruptReturnsResults ==
    pc = "interrupted" => returned = results

\* The call has got past the set-up and the prompt.
InAttempt == locals.pc \in {"stream_call", "streaming", "fallback", "clean",
                            "mkdtemp", "saving", "final_checks"}

\* C9: an attempt starts with an empty story text, empty segment and image
\* buffers, a failure counter of 0, and a directory no earlier attempt used.
C9_AttemptIsIsolated ==
    /\ [](locals.pc = "stream_call" => locals.image_load_failures = 0)
    /\ [][(locals.pc = "stream_call" /\ locals'.pc = "streaming")
             => /\ locals'.story_text = <<>>
                /\ locals'.story_segments = <<>>
                /\ locals'.current_segment = <<>>
                /\ locals'.image_data = <<>>
                /\ locals'.image_load_failures = 0]_vars
    /\ [][(locals.pc = "mkdtemp" /\ locals'.pc = "saving")
             => /\ locals'.temp_dir \notin tmp_dirs
                /\ locals'.temp_dir \in tmp_dirs'
                /\ locals'.image_files = <<>>]_vars
    /\ [][tmp_dirs \subseteq tmp_dirs']_vars

\* The second call saves its images while the directory of the first exists.
C9_Witness ==
    /\ calls = 2 /\ locals.pc = "saving"
    /\ Cardinality(tmp_dirs) = 3
    /\ locals.temp_dir \in tmp_dirs
    /\ locals.temp_dir \notin locals.fs

\* C10: the failure counter of an attempt is carried on, never reset, over
\* the stream, the fallback and the saving of the images (the end of a stream
\* that brought no image data sets it to 3); a check that sees 3 or more
\* returns None, and a check that sees less does not reject for it.
C10_FailureCounterAccumulates ==
    /\ [][InAttempt =>
            \/ locals'.image_load_failures >= locals.image_load_failures
            \/ /\ locals.pc = "streaming" /\ locals.stream = <<>> /\ locals.image_data = <<>>
               /\ locals'.image_load_failures = 3]_vars
    /\ [][(locals.pc = "streaming" /\ locals.stream = <<>>)
             => IF locals.image_load_failures >= 3 \/ locals.image_data = <<>>
                THEN locals'.pc = "returned" /\ locals'.ret = None
                ELSE locals'.pc = "clean"]_vars
    /\ [][locals.pc = "final_checks"
             => IF locals.image_load_failures >= 3
                THEN locals'.pc = "returned" /\ locals'.ret = None
                ELSE Len(locals.segments_cleaned) >= MinSegments
                        => (locals'.pc = "returned" /\ locals'.ret # None)]_vars

\* A result was returned with 2 failures, one from the stream before it broke
\* and one from an image of the fallback that did not open.
C10_Witness ==
    /\ ReturnedResult
    /\ locals.fallback_calls = 1
    /\ locals.image_load_failures = 2
    /\ Len(locals.env.stream) >= 2
    /\ locals.env.stream[1].parts = <<TextPart, ImagePart(1, "unreadable", JPEG)>>
    /\ locals.env.stream[2].fault = "iter"
    /\ Len(locals.image_files) = MinImages

\* C11: an attempt whose response has text but no image returns None, at the
\* end of the stream and after the non-streaming call, whatever the number of
\* segments of the text.
C11_TextWithoutImagesReturnsNone ==
    /\ [](ReturnedResult => locals.ret.image_data # <<>>)
    /\ [][(locals.pc = "streaming" /\ locals.stream = <<>> /\ locals.image_data = <<>>)
             => (locals'.pc = "returned" /\ locals'.ret = None)]_vars
    /\ [][(locals.pc = "fallback" /\ locals'.image_data = <<>>)
             => (locals'.pc = "returned" /\ locals'.ret = None)]_vars

\* The fallback answered with 6 paragraphs and no image: None is returned.
C11_Witness ==
    /\ locals.pc = "returned" /\ locals.ret = None
    /\ locals.fallback_calls = 1
    /\ ~locals.env.fallback.raises
    /\ Len(locals.story_segments) >= MinSegments
    /\ locals.image_data = <<>>
    /\ locals.image_load_failures = 0

\* The attempt met a JSON decode error in one of the chunks it consumed.
MetJsonError ==
    /\ locals.pc # "none"
    /\ \E i \in 1..locals.chunks_seen :
          locals.env.stream[i].fault \in {"json", "json_parts", "json_iter"}

\* C12: a JSON decode error met while the stream is consumed ends the attempt:
\* None is returned at once, the chunk is the last one consumed, the
\* non-streaming call is not made and no image is saved.
C12_JsonErrorAbortsAttempt ==
    MetJsonError =>
        /\ locals.pc = "returned" /\ locals.ret = None
        /\ locals.env.stream[locals.chunks_seen].fault \in {"json", "json_parts", "json_iter"}
        /\ locals.fallback_calls = 0
        /\ locals.temp_dir = NoDir /\ locals.image_files = <<>>

\* A JSON decode error raised by the iterator of the stream was answered by the
\* non-streaming call, and the attempt returned a result.
C12_Witness ==
    /\ ReturnedResult
    /\ locals.chunks_seen >= 1
    /\ locals.env.stream[locals.chunks_seen].fault = "json_iter"
    /\ locals.fallback_calls = 1
    /\ Len(locals.image_files) >= MinImages

\* The streaming call raised, or the iterator of its stream did.
StreamRaised ==
    \/ locals.env.stream_call = "raise"
    \/ /\ locals.chunks_seen >= 1
       /\ locals.env.stream[locals.chunks_seen].fault \in {"iter", "json_iter"}

\* C13: the non-streaming call is made at most once in an attempt, and only
\* after the streaming call or the iteration of its stream raised; it starts
\* from empty buffers, and if it raises too the attempt returns None.
C13_FallbackOnceFromEmptyBuffers ==
    /\ [](locals.pc # "none" => locals.fallback_calls <= 1)
    /\ []((locals.pc = "fallback" \/ (locals.pc # "none" /\ locals.fallback_calls = 1))
             => StreamRaised)
    /\ [][locals.pc = "fallback" =>
            /\ locals.fallback_calls = 0 /\ locals'.fallback_calls = 1
            /\ IF locals.env.fallback.raises
               THEN locals'.pc = "returned" /\ locals'.ret = None
               ELSE /\ locals'.story_text = locals.env.fallback.text
                    /\ Len(locals'.story_segments) <= Len(locals'.story_text)
                    /\ Len(locals'.image_data) <= Len(locals.env.fallback.parts)
                    /\ \A i \in 1..Len(locals'.image_data) :
                          \E j \in 1..Len(locals.env.fallback.parts) :
                             /\ locals.env.fallback.parts[j].inline_data
                             /\ locals.env.fallback.parts[j].n = locals'.image_data[i].n
                             /\ locals.env.fallback.parts[j].data = locals'.image_data[i].data]_vars

\* The iterator raised after a chunk with text and an image was consumed; the
\* result holds the text and the images of the non-streaming response only.
C13_Witness ==
    /\ ReturnedResult
    /\ locals.fallback_calls = 1
    /\ locals.chunks_seen >= 2
    /\ locals.env.stream[1].text # <<>>
    /\ locals.ret.story_text = locals.env.fallback.text
    /\ Len(locals.ret.image_data) = MinImages

\* C14: the segment check comes first: with fewer than 6 cleaned segments no
\* image is saved.
C14_SegmentCheckBeforeImages ==
    (locals.pc \in {"saving", "final_checks", "returned"}
        /\ Len(locals.segments_cleaned) < MinSegments)
      => (locals.temp_dir = NoDir /\ locals.image_files = <<>>)

\* 5 segments and more than 6 images: all the files were written, then None
\* was returned.
C14_Witness ==
    /\ locals.pc = "returned" /\ locals.ret = None
    /\ Len(locals.segments_cleaned) = MinSegments - 1
    /\ Len(locals.image_files) > MinImages
    /\ locals.image_load_failures = 0

\* C15: every path in image_files of a returned result is that of a file that
\* opened as an image.
C15_ImageFilesAreVerified ==
    ReturnedResult =>
        \A i \in 1..Len(locals.ret.image_files) :
            locals.ret.image_data[locals.ret.image_files[i].n].data = "valid"

\* A result was returned whose image_files names a file that did not open.
C15_Witness ==
    /\ ReturnedResult
    /\ locals.image_load_failures = 1
    /\ \E i \in 1..Len(locals.ret.image_files) :
          locals.ret.image_data[locals.ret.image_files[i].n].data = "corrupt"

\* The buffered images that are decoded, written and opened without failure.
GoodImages == SelectSeq(locals.image_data, LAMBDA img : img.data = "valid")

\* The save loop of the attempt has run to its end.
AllImagesHandled ==
    /\ locals.pc = "returned"
    /\ locals.temp_dir # NoDir
    /\ locals.idx = Len(locals.image_data)

\* C16: with at least 6 segments, fewer than 3 failed images and at least 6
\* images that did not fail, the attempt is accepted and image_files holds
\* exactly the images that did not fail, in the order of the stream.
C16_AcceptedWithTheGoodImages ==
    (/\ AllImagesHandled
     /\ Len(locals.segments_cleaned) >= MinSegments
     /\ locals.image_load_failures < 3
     /\ Len(GoodImages) >= MinImages)
      => /\ locals.ret # None
         /\ Len(locals.ret.image_files) = Len(GoodImages)
         /\ \A i \in 1..Len(GoodImages) : locals.ret.image_files[i].n = GoodImages[i].n

\* 7 segments, 7 images, the file of image 3 does not open: accepted, with 7
\* image files.
C16_Witness ==
    /\ ReturnedResult
    /\ Len(locals.ret.story_segments) = 7
    /\ Len(locals.image_data) = 7
    /\ locals.image_data[3].data = "corrupt"
    /\ Len(GoodImages) = 6
    /\ Len(locals.ret.image_files) = 7

\* The test that ends the loop with a result (lines 26-28 and 51).
SuccessShaped(name, outcome) ==
    /\ outcome.kind = "result"
    /\ IF name \in ContentCalls THEN Truthy(outcome) ELSE outcome # NoneResult

RetrierReturned == retrier.pc = "done"

C18_EveryErrorIsRetried ==
    /\ [](retrier.pc \in {"none", "loop", "called", "done"})
    /\ [][(retrier.pc = "called" /\ retrier.outcome.kind = "error")
            => /\ retrier'.pc = "loop"
               /\ retrier'.attempt = retrier.attempt]_vars
    /\ [][(retrier.pc = "loop"
             /\ retrier.attempt < max_consecutive_failures)
            => /\ retrier'.pc = "called"
               /\ retrier'.attempt = retrier.attempt + 1]_vars

C18_Witness ==
    /\ retrier.pc = "called"
    /\ retrier.attempt = 3
    /\ retrier.log = <<[outcome |-> Error("400"), slept |-> api_retry_delay],
                       [outcome |-> Error("content_blocked"),
                        slept |-> api_retry_delay]>>

\* The sleep that the claim of C19 puts after a failed invocation.
ClaimedDelay(outcome) ==
    IF outcome = Error("429") THEN 2 * api_retry_delay ELSE api_retry_delay

\* C19: after a failed invocation the function has slept exactly once when
\* the loop takes its next turn, 20 s after a 429 and 10 s after any other
\* failure; it has not slept after the invocation whose result it returns;
\* after the errors 429 and 500 it has slept 20 s and 10 s, and a success of
\* the third invocation is returned.
C19_OneSleepBetweenInvocations ==
    /\ (retrier.pc = "loop" /\ retrier.attempt >= 1)
         => retrier.since_call = <<ClaimedDelay(retrier.outcome)>>
    /\ (RetrierReturned /\ SuccessShaped(retrier.name, retrier.outcome))
         => retrier.since_call = <<>>
    /\ (retrier.pc # "none" /\ Len(retrier.log) = 2
          /\ retrier.log[1].outcome = Error("429")
          /\ retrier.log[2].outcome = Error("500"))
         => /\ retrier.log[1].slept = 2 * api_retry_delay
            /\ retrier.log[2].slept = api_retry_delay
            /\ RetrierReturned
                 => /\ retrier.attempt = 3
                    /\ retrier.ret = retrier.outcome
                    /\ SuccessShaped(retrier.name, retrier.outcome)
                    /\ retrier.since_call = <<>>

\* A content call is returned after the function has slept.
C19_Witness ==
    /\ RetrierReturned
    /\ retrier.name = "generate_content"
    /\ retrier.attempt = 1
    /\ retrier.ret = Response(TRUE, 1)
    /\ retrier.since_call = <<api_retry_delay>>

\* The response of the last invocation holds the marker in a text part.
MarkedResponse ==
    /\ retrier.pc # "none"
    /\ retrier.name \in ContentCalls
    /\ retrier.outcome.kind = "result"
    /\ retrier.outcome.markers > 0

\* C20: on a content call a response that holds the marker
\* "**Image Description:**" in a text part is not returned to the caller: the
\* function is still in its loop after it.
C20_MarkedResponseIsRetried ==
    MarkedResponse
        => /\ ~RetrierReturned
           /\ retrier.pc = "loop" => retrier.since_call = <<api_retry_delay>>

\* A dict response with two marked parts is returned by the first turn.
C20_Witness ==
    /\ RetrierReturned
    /\ retrier.name = "generate_content"
    /\ retrier.attempt = 1
    /\ retrier.ret = Response(TRUE, 2)
    /\ retrier.since_call = <<api_retry_delay, api_retry_delay>>

\* The operation under way is not one of the two content calls and has just
\* returned a value.
OtherOperationReturned ==
    /\ retrier.pc = "called"
    /\ retrier.name \notin ContentCalls
    /\ retrier.outcome.kind = "result"

\* C21: for an operation other than the content calls, a result that is not
\* None is returned by the turn that produced it and without a sleep; a None
\* result is followed by one sleep of the base delay and, below the ceiling,
\* by another invocation.
C21_OtherOperationsNotNoneIsSuccess ==
    /\ [][(OtherOperationReturned /\ retrier.outcome # NoneResult)
            => /\ retrier'.pc = "done"
               /\ retrier'.ret = retrier.outcome
               /\ retrier'.attempt = retrier.attempt
               /\ retrier'.since_call = <<>>]_vars
    /\ [][(OtherOperationReturned /\ retrier.outcome = NoneResult)
            => /\ retrier'.pc = "loop"
               /\ retrier'.since_call = <<api_retry_delay>>]_vars
    /\ [][(retrier.pc = "loop" /\ retrier.name \notin ContentCalls
             /\ retrier.outcome = NoneResult
             /\ retrier.attempt < max_consecutive_failures)
            => /\ retrier'.pc = "called"
               /\ retrier'.attempt = retrier.attempt + 1]_vars

C21_Witness ==
    /\ RetrierReturned
    /\ retrier.name = "generate_prompt"
    /\ retrier.attempt = 2
    /\ retrier.log = <<[outcome |-> NoneResult, slept |-> api_retry_delay]>>
    /\ retrier.ret = EmptyResult
    /\ retrier.since_call = <<>>

PromptReturned == acquirer.pc = "done"

HasBothPhrases(text) == Contains(text, PhraseA) /\ Contains(text, PhraseB)

\* C23: every prompt returned by generate_prompt holds both required
\* phrases; a model output that lacks one is not returned as it is.
C23_PromptHasBothPhrases ==
    PromptReturned
        => /\ HasBothPhrases(acquirer.ret)
           /\ (~HasBothPhrases(Strip(acquirer.generated_prompt))
                 => acquirer.ret # Strip(acquirer.generated_prompt))

\* The model answered with a quoted text that holds the first phrase only;
\* the text between the quotes was returned.
C23_Witness ==
    /\ PromptReturned
    /\ ~acquirer.by_fallback
    /\ acquirer.generated_prompt = <<QUOTE>> \o PhraseA \o <<QUOTE>>
    /\ acquirer.ret = PhraseA
    /\ ~Contains(acquirer.ret, PhraseB)

\* The texts of the chunks that were handled without an error, one after the
\* other in the order of arrival.
RECURSIVE ConcatTexts(_)
ConcatTexts(chunks) ==
    IF chunks = <<>> THEN <<>>
    ELSE LET chunk == Head(chunks)
         IN (IF chunk.has_text /\ ~chunk.raises THEN chunk.text ELSE <<>>)
                \o ConcatTexts(Tail(chunks))

OnStreamingPath ==
    \/ acquirer.pc = "streaming"
    \/ acquirer.pc = "validate" /\ acquirer.use_streaming

\* C24: on the streaming path generated_prompt is the concatenation, in the
\* order of arrival, of the texts of the chunks handled without an error; a
\* chunk without text or that raises adds nothing and leaves the function in
\* the loop over the stream.
C24_StreamedChunksConcatenated ==
    /\ [](OnStreamingPath
            => acquirer.generated_prompt = ConcatTexts(acquirer.chunks_seen))
    /\ [][(acquirer.pc = "streaming"
             /\ acquirer'.chunks_seen # acquirer.chunks_seen
             /\ acquirer'.chunks_seen # <<>>)
            => acquirer'.pc = "streaming"]_vars

C24_Witness ==
    /\ acquirer.pc = "validate"
    /\ acquirer.use_streaming
    /\ acquirer.chunks_seen = <<PromptChunk(TRUE, PhraseA, FALSE),
                                PromptChunk(TRUE, PhraseA, TRUE),
                                PromptChunk(TRUE, PhraseB, FALSE)>>
    /\ acquirer.generated_prompt = PhraseA \o PhraseB

Range(f) == {f[i] : i \in DOMAIN f}

FirstNewline(s) ==
    CHOOSE k \in 1..(Len(s) + 1) :
        /\ (k <= Len(s) => s[k] = NL)
        /\ \A j \in 1..(k - 1) : s[j] # NL

\* C26: in a result the title is the trimmed first line of segment 0;
\* cleaned segment 0 is the trimmed rest of segment 0 after its first line
\* when it has more than one line and trimmed segment 0 when it has one line;
\* the other cleaned segments are the trimmed segments.
C26_TitleAndCleanedSegments ==
    ReturnedResult
        => LET segments == locals.story_segments
               cleaned == locals.ret.story_segments
               nl == FirstNewline(segments[1])
           IN /\ Len(cleaned) = Len(segments)
              /\ locals.ret.title = Strip(SubSeq(segments[1], 1, nl - 1))
              /\ cleaned[1] =
                     IF nl <= Len(segments[1])
                     THEN Strip(SubSeq(segments[1], nl + 1, Len(segments[1])))
                     ELSE Strip(segments[1])
              /\ \A i \in 2..Len(segments) : cleaned[i] = Strip(segments[i])

\* A result whose segment 0 is the single line "T".
C26_Witness ==
    /\ ReturnedResult
    /\ locals.story_segments[1] = <<"T">>
    /\ locals.ret.title = <<"T">>
    /\ locals.ret.story_segments[1] = <<"T">>
    /\ Len(locals.ret.story_segments) = MinSegments

\* The extension that the claim of C27 gives to a MIME type.
ClaimedExt(mime_type) ==
    IF mime_type = JPEG THEN "jpg"
    ELSE IF mime_type = PNG THEN "png"
    ELSE mime_type[2]

\* The file holds the image that image_data has at the index of its name.
ImageOfFile(file) == locals.ret.image_data[file.n]

\* C27: in a result every image file is named with the 1-based position that
\* its image has among the images of the response, its extension is the one
\* that belongs to the MIME type of the image, the files are listed in
\* increasing order of their index and lie in the directory of the attempt.
C27_ImageFileNames ==
    ReturnedResult
        => LET files == locals.ret.image_files
           IN /\ \A i \in 1..Len(files) :
                     /\ files[i].n = ImageOfFile(files[i]).n
                     /\ files[i].ext = ClaimedExt(ImageOfFile(files[i]).mime_type)
                     /\ files[i].dir = locals.ret.temp_dir
              /\ \A i \in 1..(Len(files) - 1) : files[i].n < files[i + 1].n

\* The first image of the response was not buffered: the file image_1 holds
\* the second image of the response.
C27_Witness ==
    /\ ReturnedResult
    /\ locals.ret.image_files[1].n = 1
    /\ ImageOfFile(locals.ret.image_files[1]).n = 2
    /\ locals.ret.image_files[1].ext = "png"
    /\ locals.fallback_calls = 0
    /\ locals.env.stream[1].parts = <<TextPart, ImagePart(1, "unreadable", JPEG)>>

\* C28: every segment of the story_segments of a result is non-empty after
\* trimming, whichever path produced it.
C28_ResultSegmentsNonEmpty ==
    ReturnedResult
        => \A i \in 1..Len(locals.ret.story_segments) :
               Strip(locals.ret.story_segments[i]) # <<>>

\* The streamed text begins with a blank line: segment 0 of the result is
\* empty, and so is the title.
C28_Witness ==
    /\ ReturnedResult
    /\ locals.fallback_calls = 0
    /\ SubSeq(locals.ret.story_text, 1, Len(Boundary)) = Boundary
    /\ locals.ret.story_segments[1] = <<>>
    /\ locals.ret.title = <<>>
    /\ Len(locals.ret.story_segments) >= MinSegments

\* The stream was consumed to its end and the fallback was not used.
StreamConsumed ==
    /\ locals.pc \in {"clean", "mkdtemp", "saving", "final_checks", "returned"}
    /\ locals.fallback_calls = 0
    /\ locals.chunks_seen = Len(locals.env.stream)

\* C29: once the stream is consumed, no segment of the segment list holds a
\* blank-line boundary.
C29_NoBoundaryInsideSegments ==
    StreamConsumed
        => \A i \in 1..Len(locals.story_segments) :
               ~HasBoundary(locals.story_segments[i])

\* The whole text came in one chunk: the first boundary closed segment 0 and
\* all the rest is one segment.
C29_Witness ==
    /\ StreamConsumed
    /\ Len(locals.env.stream) = 1
    /\ locals.story_text = StoryText(MinSegments)
    /\ Len(locals.story_segments) = 2
    /\ locals.story_segments[1] = Paragraph(1)
    /\ HasBoundary(locals.story_segments[2])

\* The text and the parts that the chunks of a stream carry, put together.
RECURSIVE AllText(_)
AllText(stream) ==
    IF stream = <<>> THEN <<>>
    ELSE Head(stream).text \o AllText(Tail(stream))

RECURSIVE AllParts(_)
AllParts(stream) ==
    IF stream = <<>> THEN <<>>
    ELSE Head(stream).parts \o AllParts(Tail(stream))

FaultFree(stream) == \A i \in 1..Len(stream) : stream[i].fault = "none"

\* The frame that the non-streaming path leaves when its response carries
\* the text and the parts of the stream of L.
FallbackOnSame(L) ==
    Fallback([L EXCEPT !.env.fallback =
                 [raises |-> FALSE, has_text |-> TRUE,
                  text |-> AllText(L.env.stream),
                  parts |-> AllParts(L.env.stream)]])

RECURSIVE Trimmed(_)
Trimmed(segments) ==
    IF segments = <<>> THEN <<>>
    ELSE <<Strip(Head(segments))>> \o Trimmed(Tail(segments))

\* C30: for the same text and the same images, however the text is cut into
\* chunks, the streaming path leaves the segment list (compared segment by
\* segment after trimming) and the image list that the non-streaming path
\* leaves.
C30_PathsConverge ==
    (StreamConsumed /\ FaultFree(locals.env.stream))
        => /\ Trimmed(locals.story_segments)
                  = Trimmed(FallbackOnSame(locals).story_segments)
           /\ locals.image_data = FallbackOnSame(locals).image_data

\* The text begins with a blank line and comes one character at a time: the
\* streaming path has an empty segment 0 that the other path does not have.
C30_Witness ==
    /\ StreamConsumed
    /\ FaultFree(locals.env.stream)
    /\ Len(locals.env.stream) = Len(locals.story_text)
    /\ locals.story_text = Boundary \o StoryText(MinSegments)
    /\ locals.story_segments[1] = <<>>
    /\ Len(locals.story_segments) = MinSegments + 1
    /\ FallbackOnSame(locals).story_segments[1] = Paragraph(1)
    /\ Len(FallbackOnSame(locals).story_segments) = MinSegments
    /\ locals.image_data = FallbackOnSame(locals).image_data

\* The inline parts of a sequence of parts that are of the given kinds.
RECURSIVE CountParts(_, _)
CountParts(parts, kinds) ==
    IF parts = <<>> THEN 0
    ELSE (IF Head(parts).inline_data /\ Head(parts).data \in kinds THEN 1 ELSE 0)
             + CountParts(Tail(parts), kinds)

\* C31: while the stream is consumed, a chunk whose handling raises nothing
\* adds one to the image-failure counter for each of its image parts that
\* fails and buffers each of the others, whatever their order; a chunk that
\* raises an error that is not a JSON error leaves the counter as it is; in
\* both cases the loop goes on with the next chunk.
C31_ImageFailureDoesNotAbortStream ==
    [][(locals.pc = "streaming" /\ locals.stream # <<>>
          /\ Head(locals.stream).fault \in {"none", "error", "error_parts"})
         => LET chunk == Head(locals.stream)
                failed == IF chunk.fault = "none"
                          THEN CountParts(chunk.parts, {"unreadable"})
                          ELSE 0
                buffered == IF chunk.fault = "none"
                            THEN CountParts(chunk.parts,
                                            {"valid", "corrupt", "undecodable"})
                            ELSE 0
            IN /\ locals'.pc = "streaming"
               /\ locals'.stream = Tail(locals.stream)
               /\ locals'.image_load_failures = locals.image_load_failures + failed
               /\ Len(locals'.image_data) = Len(locals.image_data) + buffered]_vars

\* The third of the seven image parts of the first chunk failed: the four
\* after it were buffered and the next chunk was handled as well.
C31_Witness ==
    /\ locals.pc = "streaming"
    /\ locals.chunks_seen = 2
    /\ Len(locals.env.stream[1].parts) = MaxImages + 1
    /\ locals.env.stream[1].parts[4].data = "unreadable"
    /\ locals.image_load_failures = 1
    /\ Len(locals.image_data) = MaxImages - 1
    /\ locals.image_data[MaxImages - 1].n = MaxImages

\* C32: the supervisor never sets its success flag on an attempt whose call
\* of generate returned None or raised: the flag goes from false to true only
\* in a step whose call returned a result, and after a failed call the flag
\* and the results dictionary are what they were before it.
C32_SuccessOnlyOnNonNullResult ==
    [][/\ (~success /\ success') => (locals'.pc = "returned" /\ locals'.ret # None)
       /\ (pc = "generating" /\ (locals'.pc = "raised" \/ locals'.ret = None))
            => (success' = success /\ results' = results)]_vars

\* A call that returned None or raised, made when the results dictionary
\* already held a story and image files from an earlier attempt: the flag is
\* still false.
C32_Witness ==
    /\ pc = "attempted"
    /\ retry_count >= 2
    /\ locals.pc \in {"returned", "raised"}
    /\ (locals.pc = "returned" => locals.ret = None)
    /\ results.story_text # NoneStr
    /\ results.image_files # <<>>
    /\ ~success

C34_DirectPromptIsGuidance ==
    /\ (locals.pc # "none" /\ ~locals.use_prompt_generator)
         => /\ retrier = NoCall
            /\ acquirer = NoCall
            /\ \A i \in 1..Len(locals.submitted) :
                   locals.submitted[i] = args.prompt_input
            /\ (ReturnedResult => locals.ret.prompt_text = args.prompt_input)
    /\ ReturnedResult
         => /\ locals.submitted # <<>>
            /\ \A i \in 1..Len(locals.submitted) :
                   locals.submitted[i] = locals.ret.prompt_text

\* A call with use_prompt_generator false whose stream broke: the streaming
\* call and the non-streaming call were both given the guidance, and the
\* result names it as its prompt.
C34_Witness ==
    /\ ReturnedResult
    /\ ~locals.use_prompt_generator
    /\ locals.submitted = <<Guidance, Guidance>>
    /\ locals.ret.prompt_text = Guidance
    /\ locals.fallback_calls = 1

\* C35: in generate_prompt an error of the streaming call or of the iteration
\* of the stream leads to one non-streaming call; once that call has answered,
\* the text under validation is the text of its response and nothing of what
\* the stream delivered; when that call raises, the procedural fallback is
\* returned and no text is validated.
C35_NonStreamingReplacesStreamText ==
    /\ (acquirer.pc = "non_streaming" => acquirer.response = NoResponse)
    /\ (acquirer.pc \in {"validate", "done"}
          /\ acquirer.response.kind \in {"text", "no_text"})
         => acquirer.generated_prompt =
                (IF acquirer.response.kind = "text" THEN acquirer.response.text
                 ELSE <<>>)
    /\ (acquirer.pc # "none" /\ acquirer.response.kind = "raises")
         => (acquirer.pc = "done" /\ acquirer.by_fallback)

\* The stream delivered a complete prompt and then broke; the response of the
\* non-streaming call had no text, and what the stream delivered was
\* validated and returned.
C35_Witness ==
    /\ acquirer.pc = "done"
    /\ ~acquirer.use_streaming
    /\ acquirer.response.kind = "no_text"
    /\ ~acquirer.by_fallback
    /\ acquirer.generated_prompt = PhraseA \o PhraseB
    /\ acquirer.ret = PhraseA \o PhraseB

\* The generations of the run that completed successfully.
RECURSIVE Successes(_)
Successes(outcomes) ==
    IF outcomes = <<>> THEN 0
    ELSE (IF Head(outcomes) = "true" THEN 1 ELSE 0) + Successes(Tail(outcomes))

\* C36: the continuous runner stops at the top of an iteration when the
\* requested number of stories is reached or the duration has elapsed, 0
\* meaning no limit; when it stops because of a count N > 0, exactly N
\* generations have completed successfully, and a generation that failed is
\* not counted.
C36_StopsAfterCountSuccesses ==
    /\ (runner.pc = "stopped" /\ runner.reason = "count")
         => /\ runner.count > 0
            /\ runner.stories_generated = runner.count
            /\ Successes(runner.outcomes) = runner.count
    /\ (runner.pc = "stopped" /\ runner.reason = "time")
         => /\ runner.duration > 0
            /\ runner.now >= runner.duration
    /\ runner.pc # "none"
         => runner.stories_generated = Successes(runner.outcomes)

\* Asked for two stories, the runner stopped on the count after two
\* generations that both returned False.
C36_Witness ==
    /\ runner.pc = "stopped"
    /\ runner.reason = "count"
    /\ runner.count = 2
    /\ runner.outcomes = <<"false", "false">>
    /\ runner.stories_generated = 2

\* C37: an exception raised by a generation does not stop the loop of the
\* continuous runner: each generation appends exactly one record to the
\* statistics, of status success or error, the story counter is unchanged on
\* error, and in both cases the runner then sleeps 30 seconds and goes to the
\* top of the loop.
C37_ErrorDoesNotStopRunner ==
    [][/\ (runner.pc = "generating" /\ runner'.reason # "interrupt")
            => LET before == IF runner.stats_file.kind = "records"
                             THEN runner.stats_file.generations
                             ELSE <<>>
                   outcome == runner'.outcomes[Len(runner'.outcomes)]
                   status == IF outcome = "raises" THEN "error" ELSE "success"
               IN /\ Len(runner'.outcomes) = Len(runner.outcomes) + 1
                  /\ runner'.pc = "waiting"
                  /\ runner'.stats_file.kind = "records"
                  /\ runner'.stats_file.generations = Append(before, status)
                  /\ (outcome = "raises"
                        => runner'.stories_generated = runner.stories_generated)
       /\ (runner.pc = "waiting" /\ runner'.reason # "interrupt")
            => /\ runner'.pc = "top"
               /\ runner'.slept = runner.slept + 30
               /\ runner'.stats_file = runner.stats_file
               /\ runner'.stories_generated = runner.stories_generated]_vars

\* A generation raised and the next one completed: two records were added to
\* the one of the earlier run, the counter is 1, and the runner slept twice.
C37_Witness ==
    /\ runner.pc = "top"
    /\ runner.outcomes = <<"raises", "true">>
    /\ runner.stats_file.generations = <<"success", "error", "success">>
    /\ runner.stories_generated = 1
    /\ runner.slept = 60

StageOrder == <<"supervisor", "audio", "video", "metadata", "thumbnail">>

\* C38: main of github_main.py runs its stages in the order supervisor,
\* audio, video, metadata, thumbnail; it returns True only if the result of
\* the supervisor has a story text and image files and audio and video
\* generation both succeeded; when a stage fails main returns False and runs
\* no later stage; the supervisor has returned before any other stage runs,
\* so that no outcome of a stage reaches its retry decisions.
C38_StagesInOrderAndFailFast ==
    main.pc # "none"
      => /\ Len(main.stages) <= Len(StageOrder)
         /\ \A k \in 1..Len(main.stages) : main.stages[k].name = StageOrder[k]
         /\ (main.pc = "returned" /\ main.ret)
              => /\ TruthyStr(returned.story_text)
                 /\ returned.image_files # <<>>
                 /\ Len(main.stages) >= 3
                 /\ main.stages[2].ok
                 /\ main.stages[3].ok
         /\ \A k \in 1..Len(main.stages) :
                ~main.stages[k].ok
                  => /\ k = Len(main.stages)
                     /\ main.pc = "returned"
                     /\ ~main.ret
         /\ main.pc # "supervisor" => (pc = "done" /\ returned = results)

\* The five stages ran, generate_thumbnail returned None, and main returned
\* True.
C38_Witness ==
    /\ main.pc = "returned"
    /\ main.ret
    /\ Len(main.stages) = 5
    /\ main.stages[5] = Stage("thumbnail", FALSE)
    /\ \A k \in 1..4 : main.stages[k].ok

====
